---- MODULE Spec2Model ----
(***************************************************************************)
(* The streaming, memory-bounded population of per-contig methylation     *)
(* stores from a pileup: BatchLoader (extract_methylation_pattern/         *)
(* batch_loader.rs) and GenomeWorkspace::populate_methylation_from_pileup  *)
(* (data/mod.rs), with the Contig / MethylationCoverage / parsing helpers  *)
(* they call (specification Spec); the Contig observation map and          *)
(* MethylationCoverage on their own (ContigSpec); Motif, IupacBase and the *)
(* motif search (MotifSpec); the per-contig, per-motif aggregation         *)
(* (AggSpec) and the statistics of one of its records (GroupSpec); the     *)
(* final sort of the records (SortSpec); create_motifs (CreateMotifsSpec); *)
(* the batching loop of extract_methylation_pattern next to the            *)
(* BatchLoader on the same pileup (BatchSpec).                             *)
(***************************************************************************)
EXTENDS Integers, Sequences, FiniteSets, TLC

\* ------------------------------------------------------------------ bounds
\* Longest pileup (number of rows) the model explores.
MaxLen == 3
\* Largest batch_size argument handed to BatchLoader::new (0..MaxBatch).
MaxBatch == 3
\* Largest min_valid_read_coverage explored (0..MaxThreshold).
MaxThreshold == 1

\* Option::None, for the Option<String> / Option<Contig> fields.
NoneV == "None"

\* ------------------------------------------------------------------ inputs
\* The assembly table handed to BatchLoader::new: contig id -> sequence length
\* (the only property of the sequence the loader's code reads).
AssemblyIds == {"X", "Y"}

SequenceLen(id) == 1

\* Contig ids a pileup row may name: those of the assembly and one absent from it.
PileupIds == AssemblyIds \cup {"M"}

\* The fields of a pileup row that the code reads: columns 0, 1, 3, 5, 9, 11.
\* Numeric columns are integers; a negative integer stands for text that the
\* unsigned parse rejects ("-1").
Row(c, p, m, s, v, n) ==
    [contig |-> c, position |-> p, mod_code |-> m, strand |-> s,
     n_valid_cov |-> v, n_modified |-> n]

\* Row shapes: two valid rows with distinct keys; a row with zero coverage;
\* rows with a position at the contig length, with n_modified > n_valid_cov,
\* with a strand that does not parse, with a coverage that does not parse.
ValidRows(c) == { Row(c, 0, "a", "+", 1, 1), Row(c, 0, "a", "-", 1, 0) }

ZeroCoverageRow(c) == Row(c, 0, "a", "+", 0, 0)

FaultyRows(c) ==
    { Row(c, 1, "a", "+", 1, 0), Row(c, 0, "a", "+", 1, 2),
      Row(c, 0, "a", "?", 1, 0), Row(c, 0, "a", "+", -1, 0) }

\* The rows a pileup of the model is made of: every shape for X, the valid and
\* zero-coverage shapes for Y, one valid and the zero-coverage shape for M.
Rows ==
    ValidRows("X") \cup {ZeroCoverageRow("X")} \cup FaultyRows("X") \cup
    ValidRows("Y") \cup {ZeroCoverageRow("Y")} \cup
    {Row("M", 0, "a", "+", 1, 1), ZeroCoverageRow("M")}

RECURSIVE SeqsUpTo(_)
SeqsUpTo(n) ==
    IF n = 0 THEN { <<>> }
    ELSE LET shorter == SeqsUpTo(n - 1)
         IN  shorter \cup { Append(s, r) : s \in { t \in shorter : Len(t) = n - 1 }, r \in Rows }

\* -------------------------------------------------------------- data types
\* str::parse::<u32>() / ::<usize>(): fails on a sign; the values of Rows stay
\* far below the types' upper limits.
ParseUnsigned(x) == [ok |-> x >= 0, v |-> x]

\* Strand::from_str
StrandFromStr(s) ==
    IF s = "+" THEN [ok |-> TRUE, v |-> "Positive"]
    ELSE IF s = "-" THEN [ok |-> TRUE, v |-> "Negative"]
    ELSE [ok |-> FALSE, v |-> NoneV]

\* ModType::from_str
ModTypeFromStr(m) ==
    IF m = "a" THEN [ok |-> TRUE, v |-> "SixMA"]
    ELSE IF m = "m" THEN [ok |-> TRUE, v |-> "FiveMC"]
    ELSE IF m = "21839" THEN [ok |-> TRUE, v |-> "FourMC"]
    ELSE [ok |-> FALSE, v |-> NoneV]

\* MethylationCoverage::new that clamps n_modified instead of failing.
MethylationCoverageNew_Clamp(n_modified, n_valid_cov) ==
    [ok |-> TRUE,
     v |-> [n_modified |-> IF n_modified > n_valid_cov THEN n_valid_cov ELSE n_modified,
            n_valid_cov |-> n_valid_cov]]

\* MethylationCoverage::new
MethylationCoverageNew(n_modified, n_valid_cov) ==
    IF n_modified > n_valid_cov
    THEN [ok |-> FALSE, v |-> NoneV]
    ELSE [ok |-> TRUE, v |-> [n_modified |-> n_modified, n_valid_cov |-> n_valid_cov]]

\* Option<Contig>::None (a record, so that it compares with contigs).
NoContig == [none |-> TRUE]

\* Contig::new: the observation map starts empty. The map is a set of entries
\* [key, cov] in which no key occurs twice.
ContigNew(id) ==
    [id |-> id, sequence_len |-> SequenceLen(id), methylated_positions |-> {}]

ContainsKey(map, key) == \E e \in map : e.key = key

\* Contig::add_methylation without the contains_key test: insert overwrites.
add_methylation_Overwrite(c, position, strand, mod_type, meth_coverage) ==
    LET key == <<position, strand, mod_type>> IN
    IF position >= c.sequence_len
    THEN [ok |-> FALSE, cause |-> "OutOfBounds", contig |-> c]
    ELSE [ok |-> TRUE, cause |-> NoneV,
          contig |-> [c EXCEPT !.methylated_positions =
                          { e \in @ : e.key # key } \cup {[key |-> key, cov |-> meth_coverage]}]]

\* Contig::add_methylation
add_methylation(c, position, strand, mod_type, meth_coverage) ==
    LET key == <<position, strand, mod_type>> IN
    IF position >= c.sequence_len
    THEN [ok |-> FALSE, cause |-> "OutOfBounds", contig |-> c]
    ELSE IF ContainsKey(c.methylated_positions, key)
    THEN [ok |-> FALSE, cause |-> "Duplicate", contig |-> c]
    ELSE [ok |-> TRUE, cause |-> NoneV,
          contig |-> [c EXCEPT !.methylated_positions =
                          @ \cup {[key |-> key, cov |-> meth_coverage]}]]

\* Contig::add_methylation_record: the record's fields handed to add_methylation.
add_methylation_record(c, rec) ==
    add_methylation(c, rec.position, rec.strand, rec.mod_type, rec.methylation)

\* parse_to_methylation_record
parse_to_methylation_record(contig, n_valid_cov, row) ==
    LET position == ParseUnsigned(row.position)
        mod_type == ModTypeFromStr(row.mod_code)
        strand   == StrandFromStr(row.strand)
        n_mod    == ParseUnsigned(row.n_modified)
        meth     == MethylationCoverageNew(n_mod.v, n_valid_cov)
    IN  IF ~position.ok THEN [ok |-> FALSE, cause |-> "Parse", rec |-> NoneV]
        ELSE IF ~mod_type.ok THEN [ok |-> FALSE, cause |-> "Parse", rec |-> NoneV]
        ELSE IF ~strand.ok THEN [ok |-> FALSE, cause |-> "Parse", rec |-> NoneV]
        ELSE IF ~n_mod.ok THEN [ok |-> FALSE, cause |-> "Parse", rec |-> NoneV]
        ELSE IF ~meth.ok THEN [ok |-> FALSE, cause |-> "InvalidCoverage", rec |-> NoneV]
        ELSE [ok |-> TRUE, cause |-> NoneV,
              rec |-> [contig |-> contig, position |-> position.v,
                       strand |-> strand.v, mod_type |-> mod_type.v,
                       methylation |-> meth.v]]

\* GenomeWorkspace::add_contig / GenomeWorkspaceBuilder::add_contig: a workspace
\* is a set of contigs with distinct ids.
add_contig(contigs, contig) ==
    IF \E c \in contigs : c.id = contig.id
    THEN [ok |-> FALSE, contigs |-> contigs]
    ELSE [ok |-> TRUE, contigs |-> contigs \cup {contig}]

\* ------------------------------------------------------------------- state
VARIABLES
    stream,                   \* the pileup behind the csv reader (never changes)
    pos,                      \* rows the reader has handed out so far
    batch_size,               \* BatchLoader.batch_size
    min_valid_read_coverage,  \* BatchLoader.min_valid_read_coverage
    current_contig_id,        \* BatchLoader.current_contig_id: NoneV or an id
    current_contig,           \* BatchLoader.current_contig: NoContig or a contig
    contigs_loaded_in_batch,  \* BatchLoader.contigs_loaded_in_batch
    calls,                    \* history: one record per next() call
    populated                 \* result of populate_methylation_from_pileup

\* State of the specifications that exercise one data type at a time.
VARIABLES
    subject,                  \* the Contig the calls of ContigSpec act on
    inserted,                 \* history: entries add_methylation stored in subject
    motif,                    \* the outcome of the last Motif::new of MotifSpec
    overflow_checks,          \* the build's overflow-checks setting (debug / release)
    subpileups,               \* AggSpec: the per-contig frames handed to the aggregation
    motifs,                   \* AggSpec: the motif list handed to the aggregation
    pending,                  \* AggSpec: frames no worker has processed yet
    results,                  \* AggSpec: the shared result vector
    reply                     \* the last call: its name, arguments and result

loaderVars == <<stream, pos, batch_size, min_valid_read_coverage, current_contig_id,
                current_contig, contigs_loaded_in_batch, calls, populated>>

contigVars == <<subject, inserted>>

motifVars == <<motif, overflow_checks>>

aggVars == <<subpileups, motifs, pending, results>>

unitVars == <<contigVars, motifVars, aggVars, reply>>

vars == <<loaderVars, unitVars>>

\* No call made yet.
NoReply == [op |-> "none"]

\* No Motif::new made yet.
NoMotif == [kind |-> "None"]

ContigIdle == subject = NoContig /\ inserted = {}

MotifIdle == motif = NoMotif /\ overflow_checks = FALSE

AggIdle == subpileups = <<>> /\ motifs = <<>> /\ pending = {} /\ results = <<>>

\* The unit-level state while the loader runs.
UnitIdle == ContigIdle /\ MotifIdle /\ AggIdle /\ reply = NoReply

\* BatchLoader::new: a batch size of 0 becomes 1; nothing is loaded yet.
BatchLoaderNew(size, threshold) ==
    [batch_size |-> IF size = 0 THEN 1 ELSE size,
     min_valid_read_coverage |-> threshold,
     current_contig_id |-> NoneV,
     current_contig |-> NoContig,
     contigs_loaded_in_batch |-> 0]

\* The three mutable fields of the loader, as one value.
LoaderState ==
    [id |-> current_contig_id, contig |-> current_contig,
     loaded |-> contigs_loaded_in_batch]

\* ---------------------------------------------------------- BatchLoader::next
\* `if n_valid_cov < self.min_valid_read_coverage { continue; }`
BelowThreshold_NoSkip(n_valid_cov) == n_valid_cov + 1 < min_valid_read_coverage

BelowThreshold(n_valid_cov) == n_valid_cov < min_valid_read_coverage

\* The body of `if let Some(old_contig) = self.current_contig.take()`: the
\* previous contig moves into the builder; a full batch is returned at once.
SealPrevious(ls, builder) ==
    IF ls.contig = NoContig
    THEN [ret |-> "Continue", cause |-> NoneV, ls |-> ls, builder |-> builder]
    ELSE LET taken == [ls EXCEPT !.contig = NoContig]
             added == add_contig(builder, ls.contig)
         IN  IF ~added.ok
             THEN [ret |-> "Err", cause |-> "DuplicateContig",
                   ls |-> taken, builder |-> builder]
             ELSE IF ls.loaded = batch_size
             THEN [ret |-> "Ok", cause |-> NoneV,
                   ls |-> [taken EXCEPT !.loaded = 0], builder |-> added.contigs]
             ELSE [ret |-> "Continue", cause |-> NoneV,
                   ls |-> taken, builder |-> added.contigs]

\* Accumulation starts for a new contig id: the id and the counter are written
\* before the assembly lookup, which fails for an unknown id.
StartContig(ls, builder, contig_id) ==
    LET started == [ls EXCEPT !.id = contig_id, !.loaded = @ + 1] IN
    IF contig_id \in AssemblyIds
    THEN [ret |-> "Continue", cause |-> NoneV,
          ls |-> [started EXCEPT !.contig = ContigNew(contig_id)], builder |-> builder]
    ELSE [ret |-> "Err", cause |-> "ContigNotFound", ls |-> started, builder |-> builder]

\* The row is parsed and added to the contig being accumulated, if there is one.
Accumulate(ls, builder, n_valid_cov, row) ==
    LET meth == parse_to_methylation_record(row.contig, n_valid_cov, row) IN
    IF ~meth.ok
    THEN [ret |-> "Err", cause |-> meth.cause, ls |-> ls, builder |-> builder]
    ELSE IF ls.contig = NoContig
    THEN [ret |-> "Continue", cause |-> NoneV, ls |-> ls, builder |-> builder]
    ELSE LET added == add_methylation_record(ls.contig, meth.rec) IN
         IF ~added.ok
         THEN [ret |-> "Err", cause |-> added.cause, ls |-> ls, builder |-> builder]
         ELSE [ret |-> "Continue", cause |-> NoneV,
               ls |-> [ls EXCEPT !.contig = added.contig], builder |-> builder]

\* One iteration of `for record_result in self.reader.records()`.
RowStep(ls, builder, row) ==
    LET cov == ParseUnsigned(row.n_valid_cov) IN
    IF ~cov.ok
    THEN [ret |-> "Err", cause |-> "InvalidCoverageNumber", ls |-> ls, builder |-> builder]
    ELSE IF BelowThreshold(cov.v)
    THEN [ret |-> "Continue", cause |-> NoneV, ls |-> ls, builder |-> builder]
    ELSE IF row.contig # ls.id
    THEN LET sealed == SealPrevious(ls, builder) IN
         IF sealed.ret # "Continue" THEN sealed
         ELSE LET started == StartContig(sealed.ls, sealed.builder, row.contig) IN
              IF started.ret # "Continue" THEN started
              ELSE Accumulate(started.ls, started.builder, cov.v, row)
    ELSE Accumulate(ls, builder, cov.v, row)

\* After the loop: the contig still held is sealed (`.ok()?` turns a failure
\* into None), and an empty workspace ends the sequence.
EndOfStream_KeepContig(ls, builder) ==
    LET added == IF ls.contig = NoContig THEN [ok |-> TRUE, contigs |-> builder]
                 ELSE add_contig(builder, ls.contig)
    IN  IF ~added.ok
        THEN [ret |-> "None", cause |-> "DuplicateContig", ls |-> ls, builder |-> builder]
        ELSE IF added.contigs = {}
        THEN [ret |-> "None", cause |-> NoneV, ls |-> ls, builder |-> added.contigs]
        ELSE [ret |-> "Ok", cause |-> NoneV, ls |-> ls, builder |-> added.contigs]

EndOfStream_DropPartial(ls, builder) ==
    LET taken == [ls EXCEPT !.contig = NoContig]
        added == IF ls.contig = NoContig THEN [ok |-> TRUE, contigs |-> builder]
                 ELSE add_contig(builder, ls.contig)
    IN  IF ~added.ok
        THEN [ret |-> "None", cause |-> "DuplicateContig", ls |-> taken, builder |-> builder]
        ELSE IF Cardinality(added.contigs) < batch_size
        THEN [ret |-> "None", cause |-> NoneV, ls |-> taken, builder |-> added.contigs]
        ELSE [ret |-> "Ok", cause |-> NoneV, ls |-> taken, builder |-> added.contigs]

EndOfStream(ls, builder) ==
    LET taken == [ls EXCEPT !.contig = NoContig]
        added == IF ls.contig = NoContig THEN [ok |-> TRUE, contigs |-> builder]
                 ELSE add_contig(builder, ls.contig)
    IN  IF ~added.ok
        THEN [ret |-> "None", cause |-> "DuplicateContig", ls |-> taken, builder |-> builder]
        ELSE IF added.contigs = {}
        THEN [ret |-> "None", cause |-> NoneV, ls |-> taken, builder |-> added.contigs]
        ELSE [ret |-> "Ok", cause |-> NoneV, ls |-> taken, builder |-> added.contigs]

\* The whole of next(): rows are read from the reader's position until a row
\* makes the call return or the stream ends. `steps` records, per row read,
\* the loader and the builder before and after it.
RECURSIVE ReadRecords(_, _, _, _)
ReadRecords(ls, builder, i, steps) ==
    IF i > Len(stream)
    THEN LET r == EndOfStream(ls, builder) IN
         [result |-> r.ret, cause |-> r.cause, ls |-> r.ls, builder |-> r.builder,
          to |-> Len(stream), at |-> 0, held |-> ls.contig, steps |-> steps]
    ELSE LET r    == RowStep(ls, builder, stream[i])
             step == [row |-> i, ret |-> r.ret, before |-> ls, after |-> r.ls,
                      builder_before |-> builder, builder_after |-> r.builder]
         IN  IF r.ret = "Continue"
             THEN ReadRecords(r.ls, r.builder, i + 1, Append(steps, step))
             ELSE [result |-> r.ret, cause |-> r.cause, ls |-> r.ls,
                   builder |-> r.builder, to |-> i, at |-> i, held |-> NoContig,
                   steps |-> Append(steps, step)]

\* The record kept of a call: rows from+1..to were read; `at` is the row that
\* made the call return (0: the stream ended); `held` is the contig held when
\* the stream ended; `workspace` is the emitted workspace ({} unless "Ok").
CallRecord(r) ==
    [from |-> pos, to |-> r.to, result |-> r.result, cause |-> r.cause,
     at |-> r.at, held |-> r.held, steps |-> r.steps,
     workspace |-> IF r.result = "Ok" THEN r.builder ELSE {}]

LastIsNone == Len(calls) > 0 /\ calls[Len(calls)].result = "None"

\* More calls than any stream of the model can answer with Some.
CallCap == MaxLen + 3

\* A call of next(), in a run that loads the pileup through the batch loader.
\* A None that follows a None is not recorded again.
NextCall ==
    /\ populated.status = "NotRun"
    /\ Len(calls) < CallCap
    /\ LET r == ReadRecords(LoaderState, {}, pos + 1, <<>>) IN
       /\ pos' = r.to
       /\ current_contig_id' = r.ls.id
       /\ current_contig' = r.ls.contig
       /\ contigs_loaded_in_batch' = r.ls.loaded
       /\ calls' = IF LastIsNone /\ r.result = "None"
                   THEN calls ELSE Append(calls, CallRecord(r))
    /\ UNCHANGED <<stream, batch_size, min_valid_read_coverage, populated>>
    /\ UNCHANGED unitVars

\* ------------------------- GenomeWorkspace::populate_methylation_from_pileup
\* The first loop: every row at or above the threshold becomes a record; the
\* first row that fails to parse ends the call with an error.
RECURSIVE ReadPileup(_, _, _)
ReadPileup(rows, i, records) ==
    IF i > Len(rows) THEN [ok |-> TRUE, records |-> records]
    ELSE LET row == rows[i]
             cov == ParseUnsigned(row.n_valid_cov)
         IN  IF ~cov.ok THEN [ok |-> FALSE, records |-> records]
             ELSE IF BelowThreshold(cov.v) THEN ReadPileup(rows, i + 1, records)
             ELSE LET meth == parse_to_methylation_record(row.contig, cov.v, row) IN
                  IF ~meth.ok THEN [ok |-> FALSE, records |-> records]
                  ELSE ReadPileup(rows, i + 1, Append(records, meth.rec))

\* The second loop: each record goes to its contig; a record of a contig the
\* workspace does not hold is logged and dropped.
RECURSIVE StoreRecords(_, _, _)
StoreRecords(contigs, records, i) ==
    IF i > Len(records) THEN [status |-> "Ok", contigs |-> contigs]
    ELSE LET rec == records[i] IN
         IF \E c \in contigs : c.id = rec.contig
         THEN LET c     == CHOOSE d \in contigs : d.id = rec.contig
                  added == add_methylation(c, rec.position, rec.strand,
                                           rec.mod_type, rec.methylation)
              IN  IF ~added.ok THEN [status |-> "Err", contigs |-> contigs]
                  ELSE StoreRecords((contigs \ {c}) \cup {added.contig}, records, i + 1)
         ELSE StoreRecords(contigs, records, i + 1)

\* populate_methylation_from_pileup that fails on a record of a contig the
\* workspace does not hold.
populate_methylation_from_pileup_FailUnknown(contigs, rows) ==
    LET read == ReadPileup(rows, 1, <<>>) IN
    IF ~read.ok THEN [status |-> "Err", contigs |-> contigs]
    ELSE IF \E i \in 1..Len(read.records) :
                \A c \in contigs : c.id # read.records[i].contig
    THEN [status |-> "Err", contigs |-> contigs]
    ELSE StoreRecords(contigs, read.records, 1)

populate_methylation_from_pileup(contigs, rows) ==
    LET read == ReadPileup(rows, 1, <<>>) IN
    IF ~read.ok THEN [status |-> "Err", contigs |-> contigs]
    ELSE StoreRecords(contigs, read.records, 1)

\* The workspace populate is called on: the assembly's contigs, nothing stored.
AssemblyWorkspace == { ContigNew(id) : id \in AssemblyIds }

\* The whole pileup is loaded into a workspace in one call, in a run that does
\* not use the batch loader.
Populate ==
    /\ populated.status = "NotRun"
    /\ calls = <<>>
    /\ populated' = populate_methylation_from_pileup(AssemblyWorkspace, stream)
    /\ UNCHANGED <<stream, pos, batch_size, min_valid_read_coverage,
                   current_contig_id, current_contig, contigs_loaded_in_batch, calls>>
    /\ UNCHANGED unitVars

\* ------------------------------------------------------------ specification
Init ==
    /\ stream \in SeqsUpTo(MaxLen)
    /\ pos = 0
    /\ \E size \in 0..MaxBatch, threshold \in 0..MaxThreshold :
         LET l == BatchLoaderNew(size, threshold) IN
         /\ batch_size = l.batch_size
         /\ min_valid_read_coverage = l.min_valid_read_coverage
         /\ current_contig_id = l.current_contig_id
         /\ current_contig = l.current_contig
         /\ contigs_loaded_in_batch = l.contigs_loaded_in_batch
    /\ calls = <<>>
    /\ populated = [status |-> "NotRun", contigs |-> {}]
    /\ UnitIdle

Next == NextCall \/ Populate

Spec == Init /\ [][Next]_vars

\* ------------------------------------------------- vocabulary of the claims
CallIds == 1..Len(calls)

RowIds == 1..Len(stream)

\* The row's coverage parses and is at or above the threshold.
Passing(row) ==
    /\ ParseUnsigned(row.n_valid_cov).ok
    /\ row.n_valid_cov >= min_valid_read_coverage

\* The row's coverage parses and is below the threshold.
LowCoverage(row) ==
    /\ ParseUnsigned(row.n_valid_cov).ok
    /\ row.n_valid_cov < min_valid_read_coverage

\* The map entry a row stands for.
KeyOf(row) ==
    <<row.position, StrandFromStr(row.strand).v, ModTypeFromStr(row.mod_code).v>>

EntryOf(row) ==
    [key |-> KeyOf(row),
     cov |-> [n_modified |-> row.n_modified, n_valid_cov |-> row.n_valid_cov]]

\* Rows of one contig are contiguous.
Grouped ==
    \A i, j, k \in RowIds :
        (i < j /\ j < k /\ stream[i].contig = stream[k].contig)
            => stream[j].contig = stream[i].contig

\* Every row parses, respects n_modified <= n_valid_cov and its contig's
\* length, and no two rows of a contig share a key.
WellFormed ==
    /\ \A i \in RowIds :
          /\ ParseUnsigned(stream[i].n_valid_cov).ok
          /\ parse_to_methylation_record(stream[i].contig, stream[i].n_valid_cov,
                                         stream[i]).ok
          /\ stream[i].position < SequenceLen(stream[i].contig)
    /\ \A i, j \in RowIds :
          (i # j /\ stream[i].contig = stream[j].contig)
              => KeyOf(stream[i]) # KeyOf(stream[j])

AllInAssembly == \A i \in RowIds : stream[i].contig \in AssemblyIds

IdsOf(workspace) == { c.id : c \in workspace }

\* Row i is stored, as an observation of its contig, in the workspace of call k.
StoredIn(i, k) ==
    \E c \in calls[k].workspace :
        c.id = stream[i].contig /\ EntryOf(stream[i]) \in c.methylated_positions

\* The call that read row i.
ReadBy(i, k) == calls[k].from < i /\ i <= calls[k].to

\* --------------------------------------------------------------------- C1
\* C1: for a well-formed pileup whose passing rows name X (first) and then Y,
\* both in the assembly, a loader with batch_size = 1 driven to None has
\* yielded exactly two workspaces, the first holding only X, the second only Y.
C1_TwoContigsTwoBatches ==
    ( /\ LastIsNone
      /\ batch_size = 1
      /\ min_valid_read_coverage >= 1
      /\ WellFormed /\ Grouped
      /\ Len(stream) >= 2
      /\ \A i \in RowIds : Passing(stream[i])
      /\ stream[1].contig = "X"
      /\ stream[Len(stream)].contig = "Y"
      /\ \A i \in RowIds : stream[i].contig \in {"X", "Y"} )
    => /\ Len(calls) = 3
       /\ calls[1].result = "Ok" /\ IdsOf(calls[1].workspace) = {"X"}
       /\ calls[2].result = "Ok" /\ IdsOf(calls[2].workspace) = {"Y"}

\* --------------------------------------------------------------------- C2
\* C2: for a well-formed pileup grouped by contig whose contigs are all in the
\* assembly, once the loader has returned None every row at or above the
\* threshold is stored in exactly one emitted workspace.
C2_EveryPassingRowStoredOnce ==
    (LastIsNone /\ min_valid_read_coverage >= 1 /\ WellFormed /\ Grouped
        /\ AllInAssembly)
    => \A i \in RowIds :
          Passing(stream[i])
              => Cardinality({ k \in CallIds : StoredIn(i, k) }) = 1

\* --------------------------------------------------------------------- C3
\* C3: every emitted workspace holds at most batch_size contigs, whatever the
\* stream and whatever the earlier calls returned (thresholds >= 1).
C3_AtMostBatchSize ==
    min_valid_read_coverage >= 1
    => \A k \in CallIds :
          calls[k].result = "Ok" => Cardinality(calls[k].workspace) <= batch_size

\* --------------------------------------------------------------------- C4
\* C4: the call that reads a row at or above the threshold whose contig is not
\* in the assembly returns an error, and no emitted workspace holds a contig
\* of that id (thresholds >= 1).
C4_MissingContigFails ==
    \A i \in RowIds :
        ( /\ min_valid_read_coverage >= 1
          /\ Passing(stream[i])
          /\ stream[i].contig \notin AssemblyIds )
        => /\ \A k \in CallIds : ReadBy(i, k) => calls[k].result = "Err"
           /\ \A k \in CallIds : stream[i].contig \notin IdsOf(calls[k].workspace)

\* --------------------------------------------------------------------- C5
\* C5: a row whose coverage is below the threshold leaves the loader and the
\* batch under construction as they were and does not end the call, whatever
\* its contig id; populate_methylation_from_pileup stores only what rows at or
\* above the threshold carry, and a pileup of low-coverage rows alone leaves
\* its workspace as it was, without error.
C5_LowCoverageRowSkipped ==
    /\ \A k \in CallIds : \A n \in 1..Len(calls[k].steps) :
          LET s == calls[k].steps[n] IN
          LowCoverage(stream[s.row])
              => /\ s.ret = "Continue"
                 /\ s.after = s.before
                 /\ s.builder_after = s.builder_before
    /\ \A c \in populated.contigs : \A e \in c.methylated_positions :
          \E i \in RowIds :
              /\ Passing(stream[i])
              /\ stream[i].contig = c.id
              /\ EntryOf(stream[i]) = e
    /\ ( /\ populated.status # "NotRun"
         /\ \A i \in RowIds : LowCoverage(stream[i]) )
       => (populated.status = "Ok" /\ populated.contigs = AssemblyWorkspace)

\* A low-coverage row of a contig absent from the assembly was read while a
\* contig with a stored observation was being accumulated.
C5_Witness ==
    \E k \in CallIds : \E n \in 1..Len(calls[k].steps) :
        LET s == calls[k].steps[n] IN
        /\ LowCoverage(stream[s.row])
        /\ stream[s.row].contig \notin AssemblyIds
        /\ s.before.contig # NoContig
        /\ s.before.contig.methylated_positions # {}

\* --------------------------------------------------------------------- C6
\* C6: every observation stored in a contig of a workspace produced from a
\* pileup has n_valid_cov >= min_valid_read_coverage and n_valid_cov >= 1.
ProducedContigs ==
    UNION { calls[k].workspace : k \in CallIds } \cup populated.contigs

C6_StoredCoveragePositive ==
    \A c \in ProducedContigs : \A e \in c.methylated_positions :
        /\ e.cov.n_valid_cov >= min_valid_read_coverage
        /\ e.cov.n_valid_cov >= 1

\* --------------------------------------------------------------------- C7
\* The three parts of C7: the contig held when the stream ends is emitted by
\* that call; a pileup whose rows are all below the threshold makes the first
\* call return None; no emitted workspace is empty.
FinalPartialBatch ==
    /\ \A k \in CallIds :
          (calls[k].at = 0 /\ calls[k].held # NoContig)
              => (calls[k].result = "Ok" /\ calls[k].held \in calls[k].workspace)
    /\ ( /\ Len(calls) >= 1
         /\ \A i \in RowIds : LowCoverage(stream[i]) )
       => calls[1].result = "None"
    /\ \A k \in CallIds : calls[k].result = "Ok" => calls[k].workspace # {}

\* C7 as stated, for every pileup.
C7_FinalPartialBatch == FinalPartialBatch

\* C7, amended: for a pileup grouped by contig, the contig held when the
\* stream ends is emitted in a final workspace, also one of fewer than
\* batch_size contigs; a pileup with no row at or above the threshold yields
\* None at the first call; no emitted workspace is empty.
C7_GroupedFinalPartialBatch == Grouped => FinalPartialBatch

\* The stream of a grouped pileup ended in a call that emitted the held
\* contig, with its observations, in a workspace of fewer than batch_size
\* contigs.
C7_Witness ==
    /\ Grouped
    /\ \E k \in CallIds :
          /\ calls[k].at = 0 /\ calls[k].held # NoContig
          /\ calls[k].held.methylated_positions # {}
          /\ calls[k].result = "Ok"
          /\ Cardinality(calls[k].workspace) < batch_size

\* --------------------------------------------------------------------- C8
\* C8: next() always returns, and at most Len(stream) + 1 calls are answered
\* with Some, so that repeated calls reach None by call Len(stream) + 2; once
\* a call has returned None every later call returns None.
SomeCalls == { k \in CallIds : calls[k].result # "None" }

C8_FiniteNotRestartable ==
    /\ [](Cardinality(SomeCalls) <= Len(stream) + 1)
    /\ [](Len(calls) < CallCap)
    /\ [][LastIsNone => LastIsNone']_vars

\* None was returned after a workspace and an error.
C8_Witness ==
    /\ LastIsNone
    /\ \E k \in CallIds : calls[k].result = "Ok"
    /\ \E k \in CallIds : calls[k].result = "Err"

\* --------------------------------------------------------------------- C9
\* C9: a call that reads a row at or above the threshold which does not parse,
\* names a contig absent from the assembly, has n_modified > n_valid_cov,
\* repeats a stored key or lies at or beyond its contig's length returns an
\* error; a failure to seal a contig is returned as an error, also at the end
\* of the stream (thresholds >= 1).
FaultyAt(s) ==
    LET row == stream[s.row] IN
    /\ Passing(row)
    /\ \/ ~parse_to_methylation_record(row.contig, row.n_valid_cov, row).ok
       \/ row.contig \notin AssemblyIds
       \/ row.position >= SequenceLen(row.contig)
       \/ /\ s.before.id = row.contig
          /\ s.before.contig # NoContig
          /\ ContainsKey(s.before.contig.methylated_positions, KeyOf(row))

C9_NoHiddenFailure ==
    min_valid_read_coverage >= 1
    => /\ \A k \in CallIds : \A n \in 1..Len(calls[k].steps) :
             FaultyAt(calls[k].steps[n]) => calls[k].result = "Err"
       /\ \A k \in CallIds :
             calls[k].cause = "DuplicateContig" => calls[k].result = "Err"

\* -------------------------------------------------------------------- C10
\* C10: after a call returned an error caused by a row (n_modified >
\* n_valid_cov, a repeated key, a position at or beyond the contig length), no
\* contig that was sealed into the batch of that call or was being accumulated
\* when the error occurred is in a workspace emitted by a later call (pileups
\* grouped by contig, thresholds >= 1).
RowErrors == {"InvalidCoverage", "Duplicate", "OutOfBounds"}

AbortedIds(k) ==
    LET s == calls[k].steps[Len(calls[k].steps)] IN
    IdsOf(s.builder_after) \cup
        (IF s.after.contig = NoContig THEN {} ELSE {s.after.contig.id})

C10_BatchAbortedAsWhole ==
    (min_valid_read_coverage >= 1 /\ Grouped)
    => \A k \in CallIds :
          (calls[k].result = "Err" /\ calls[k].cause \in RowErrors)
              => \A j \in CallIds :
                    j > k => IdsOf(calls[j].workspace) \cap AbortedIds(k) = {}

\* --------------------------------------------------------------------- C27
\* The pileup without the rows at or above the threshold that name a contig
\* the workspace does not hold.
WithoutUnknown ==
    SelectSeq(stream, LAMBDA row : ~(Passing(row) /\ row.contig \notin AssemblyIds))

\* C27: rows at or above the threshold whose contig the workspace does not
\* hold make no difference to populate_methylation_from_pileup: the call
\* ends as it ends on the pileup without them, with the same contigs holding
\* the same observations, and the workspace holds the contigs it held before;
\* on a well-formed pileup the call returns Ok and each contig holds exactly
\* the rows at or above the threshold that name it.
C27_UnknownContigDropped ==
    populated.status # "NotRun" =>
        /\ populated = populate_methylation_from_pileup(AssemblyWorkspace, WithoutUnknown)
        /\ IdsOf(populated.contigs) = AssemblyIds
        /\ WellFormed =>
              /\ populated.status = "Ok"
              /\ \A c \in populated.contigs :
                    c.methylated_positions =
                        { EntryOf(stream[i]) :
                            i \in { j \in RowIds : /\ Passing(stream[j])
                                                   /\ stream[j].contig = c.id } }

\* A row of M at or above the threshold comes before a row of X: the call
\* returns Ok and X holds its row.
C27_Witness ==
    /\ populated.status = "Ok"
    /\ \E i, j \in RowIds :
          /\ i < j
          /\ stream[i].contig = "M" /\ Passing(stream[i])
          /\ stream[j].contig = "X" /\ Passing(stream[j])
          /\ \E c \in populated.contigs :
                c.id = "X" /\ EntryOf(stream[j]) \in c.methylated_positions

\* ===================================================================
\* ContigSpec: calls on one Contig and on MethylationCoverage::new
\* ===================================================================
\* Most entries the contig of ContigSpec is filled with.
MaxStored == 2
\* Largest n_modified / n_valid_cov handed to MethylationCoverage::new.
MaxCount == 1
\* Longest position list handed to get_methylated_positions.
MaxPositions == 2

Counts == 0..MaxCount

Strands == {"Positive", "Negative"}

\* The mod types the contig's keys are made of.
ModTypes == {"SixMA", "FiveMC"}

\* Positions tried on a contig: all inside it, its length, and one beyond.
PositionsTried(c) == 0..(c.sequence_len + 1)

RECURSIVE PositionLists(_, _)
PositionLists(c, n) ==
    IF n = 0 THEN { <<>> }
    ELSE LET shorter == PositionLists(c, n - 1)
         IN  shorter \cup { Append(l, q) : l \in { t \in shorter : Len(t) = n - 1 },
                                           q \in PositionsTried(c) }

\* Option<&MethylationCoverage>::None
NoCoverage == [absent |-> TRUE]

\* HashMap::get
MapGet(map, key) ==
    IF ContainsKey(map, key) THEN (CHOOSE e \in map : e.key = key).cov ELSE NoCoverage

\* Contig::get_methylated_positions looking the position up under any strand.
get_methylated_positions_AnyStrand(c, positions, strand, mod_type) ==
    [ i \in 1..Len(positions) |->
        IF \E e \in c.methylated_positions : e.key[1] = positions[i] /\ e.key[3] = mod_type
        THEN (CHOOSE e \in c.methylated_positions :
                  e.key[1] = positions[i] /\ e.key[3] = mod_type).cov
        ELSE NoCoverage ]

\* Contig::get_methylated_positions
get_methylated_positions(c, positions, strand, mod_type) ==
    [ i \in 1..Len(positions) |->
        MapGet(c.methylated_positions, <<positions[i], strand, mod_type>>) ]

\* The loader's state while a unit-level specification runs.
LoaderIdle ==
    /\ stream = <<>>
    /\ pos = 0
    /\ batch_size = 1
    /\ min_valid_read_coverage = 0
    /\ current_contig_id = NoneV
    /\ current_contig = NoContig
    /\ contigs_loaded_in_batch = 0
    /\ calls = <<>>
    /\ populated = [status |-> "Idle", contigs |-> {}]

\* A run of ContigSpec fills the contig by successful insertions and ends
\* with one more call: a failing insertion or, since the other calls read
\* only (&self, or no contig at all), a lookup or a coverage construction.
Open == reply.op = "none" \/ (reply.op = "add_methylation" /\ reply.ok)

\* subject.add_methylation(position, strand, mod_type, cov), with cov built by
\* MethylationCoverage::new. The model stops inserting at MaxStored entries;
\* calls that fail stay possible.
AddMethylation ==
    /\ Open
    /\ \E position \in PositionsTried(subject), strand \in Strands,
          mod_type \in ModTypes, n_modified \in Counts, n_valid_cov \in Counts :
          LET cov == MethylationCoverageNew(n_modified, n_valid_cov)
              r   == add_methylation(subject, position, strand, mod_type, cov.v)
          IN  /\ cov.ok
              /\ r.ok => Cardinality(inserted) < MaxStored
              /\ subject' = r.contig
              /\ inserted' = IF r.ok
                             THEN inserted \cup {[key |-> <<position, strand, mod_type>>,
                                                  cov |-> cov.v]}
                             ELSE inserted
              /\ reply' = [op |-> "add_methylation", position |-> position,
                           strand |-> strand, mod_type |-> mod_type, cov |-> cov.v,
                           ok |-> r.ok, cause |-> r.cause, before |-> subject]
    /\ UNCHANGED <<loaderVars, motifVars, aggVars>>

\* subject.get_methylated_positions(positions, strand, mod_type)
GetMethylatedPositions ==
    /\ Open
    /\ \E positions \in PositionLists(subject, MaxPositions), strand \in Strands,
          mod_type \in ModTypes :
          reply' = [op |-> "get_methylated_positions", positions |-> positions,
                    strand |-> strand, mod_type |-> mod_type,
                    result |-> get_methylated_positions(subject, positions, strand, mod_type),
                    before |-> subject]
    /\ UNCHANGED contigVars
    /\ UNCHANGED <<loaderVars, motifVars, aggVars>>

\* MethylationCoverage::new(n_modified, n_valid_cov)
NewCoverage ==
    /\ Open
    /\ \E n_modified \in Counts, n_valid_cov \in Counts :
          LET r == MethylationCoverageNew(n_modified, n_valid_cov) IN
          reply' = [op |-> "MethylationCoverage::new", n_modified |-> n_modified,
                    n_valid_cov |-> n_valid_cov, ok |-> r.ok, v |-> r.v]
    /\ UNCHANGED contigVars
    /\ UNCHANGED <<loaderVars, motifVars, aggVars>>

ContigInit ==
    /\ LoaderIdle
    /\ MotifIdle
    /\ AggIdle
    /\ subject \in { ContigNew(id) : id \in AssemblyIds }
    /\ inserted = {}
    /\ reply = NoReply

ContigNext == AddMethylation \/ GetMethylatedPositions \/ NewCoverage

ContigSpec == ContigInit /\ [][ContigNext]_vars

\* --------------------------------------------------------------------- C11
\* C11: a call of add_methylation fails exactly when the position is at or
\* beyond the contig's length or the key (position, strand, mod_type) is already
\* stored; a failed call leaves the map as it was (the stored value is kept);
\* a successful call adds exactly the entry (key, cov) and touches no other
\* key, so keys that differ in strand or mod type only live side by side.
C11_AddMethylationContract ==
    reply.op = "add_methylation" =>
        LET key    == <<reply.position, reply.strand, reply.mod_type>>
            before == reply.before.methylated_positions
            after  == subject.methylated_positions
            stored == \E e \in before : e.key = key
        IN  /\ reply.ok <=> (reply.position < reply.before.sequence_len /\ ~stored)
            /\ (reply.position >= reply.before.sequence_len) => reply.cause = "OutOfBounds"
            /\ ~reply.ok => after = before
            /\ reply.ok =>
                  /\ after = before \cup {[key |-> key, cov |-> reply.cov]}
                  /\ \A e \in before : e \in after
            /\ \A e, f \in after : e.key = f.key => e = f

\* A second insertion under a stored key, with another value, was refused
\* while the map also holds the same position under the other strand.
C11_Witness ==
    /\ reply.op = "add_methylation"
    /\ ~reply.ok
    /\ reply.cause = "Duplicate"
    /\ \E e \in subject.methylated_positions :
          /\ e.key = <<reply.position, reply.strand, reply.mod_type>>
          /\ e.cov # reply.cov
    /\ \E e \in subject.methylated_positions :
          /\ e.key[1] = reply.position
          /\ e.key[2] # reply.strand
          /\ e.key[3] = reply.mod_type

\* --------------------------------------------------------------------- C12
\* C12: get_methylated_positions answers with one element per requested
\* position, in the order asked: the observation inserted under exactly
\* (position, strand, mod_type) if there was a successful insertion, None
\* otherwise; the contig is left as it was.
C12_GetMethylatedPositions ==
    reply.op = "get_methylated_positions" =>
        /\ Len(reply.result) = Len(reply.positions)
        /\ \A i \in 1..Len(reply.positions) :
              LET key  == <<reply.positions[i], reply.strand, reply.mod_type>>
                  hits == { e \in inserted : e.key = key }
              IN  IF hits = {} THEN reply.result[i] = NoCoverage
                  ELSE \A e \in hits : reply.result[i] = e.cov
        /\ subject = reply.before

\* A list of two positions got an observation and a None, while the position
\* answered with None holds, or the other holds, an observation of the other
\* strand.
C12_Witness ==
    /\ reply.op = "get_methylated_positions"
    /\ Len(reply.positions) = 2
    /\ reply.result[1] = NoCoverage
    /\ reply.result[2] # NoCoverage
    /\ \E e \in inserted :
          /\ e.key[1] = reply.positions[2]
          /\ e.key[2] # reply.strand
          /\ e.key[3] = reply.mod_type
          /\ e.cov # reply.result[2]

\* --------------------------------------------------------------------- C13
\* C13: MethylationCoverage::new fails exactly when n_modified > n_valid_cov
\* and otherwise holds both numbers as given; every coverage stored in the
\* contig (all built through new) has n_modified <= n_valid_cov.
C13_CoverageInvariant ==
    /\ reply.op = "MethylationCoverage::new" =>
          /\ reply.ok <=> ~(reply.n_modified > reply.n_valid_cov)
          /\ reply.ok => reply.v = [n_modified |-> reply.n_modified,
                                    n_valid_cov |-> reply.n_valid_cov]
    /\ \A e \in inserted : e.cov.n_modified <= e.cov.n_valid_cov

\* new refused n_modified > n_valid_cov.
C13_Witness ==
    /\ reply.op = "MethylationCoverage::new"
    /\ reply.n_modified > reply.n_valid_cov
    /\ ~reply.ok

\* ===================================================================
\* MotifSpec: Motif, IupacBase and find_motif_indices_in_contig
\* ===================================================================
\* Longest motif string built from MotifChars.
MaxMotifLen == 2
\* Longest contig sequence searched.
MaxContigLen == 3
\* Number of values of u8, the type of Motif.mod_position.
U8Modulus == 256

\* The variants of IupacBase, in the order of the enum.
IupacBases ==
    {"Base_A", "Base_T", "Base_G", "Base_C", "Base_R", "Base_Y", "Base_S", "Base_W",
     "Base_K", "Base_M", "Base_B", "Base_D", "Base_H", "Base_V", "Base_N"}

\* IupacBase::parse_char
parse_char(base) ==
    CASE base = "A" -> [ok |-> TRUE, v |-> "Base_A"]
      [] base = "T" -> [ok |-> TRUE, v |-> "Base_T"]
      [] base = "G" -> [ok |-> TRUE, v |-> "Base_G"]
      [] base = "C" -> [ok |-> TRUE, v |-> "Base_C"]
      [] base = "R" -> [ok |-> TRUE, v |-> "Base_R"]
      [] base = "Y" -> [ok |-> TRUE, v |-> "Base_Y"]
      [] base = "S" -> [ok |-> TRUE, v |-> "Base_S"]
      [] base = "W" -> [ok |-> TRUE, v |-> "Base_W"]
      [] base = "K" -> [ok |-> TRUE, v |-> "Base_K"]
      [] base = "M" -> [ok |-> TRUE, v |-> "Base_M"]
      [] base = "B" -> [ok |-> TRUE, v |-> "Base_B"]
      [] base = "D" -> [ok |-> TRUE, v |-> "Base_D"]
      [] base = "H" -> [ok |-> TRUE, v |-> "Base_H"]
      [] base = "V" -> [ok |-> TRUE, v |-> "Base_V"]
      [] base = "N" -> [ok |-> TRUE, v |-> "Base_N"]
      [] OTHER -> [ok |-> FALSE, v |-> NoneV]

\* IupacBase::to_complement_base that takes K and M for their own complements,
\* as S, W and N are.
to_complement_base_KeepKM(base) ==
    CASE base = "Base_A" -> "Base_T"
      [] base = "Base_T" -> "Base_A"
      [] base = "Base_G" -> "Base_C"
      [] base = "Base_C" -> "Base_G"
      [] base = "Base_R" -> "Base_Y"
      [] base = "Base_Y" -> "Base_R"
      [] base = "Base_B" -> "Base_V"
      [] base = "Base_D" -> "Base_H"
      [] base = "Base_H" -> "Base_D"
      [] base = "Base_V" -> "Base_B"
      [] OTHER -> base

\* IupacBase::to_complement_base
to_complement_base(base) ==
    CASE base = "Base_A" -> "Base_T"
      [] base = "Base_T" -> "Base_A"
      [] base = "Base_G" -> "Base_C"
      [] base = "Base_C" -> "Base_G"
      [] base = "Base_R" -> "Base_Y"
      [] base = "Base_Y" -> "Base_R"
      [] base = "Base_S" -> "Base_S"
      [] base = "Base_W" -> "Base_W"
      [] base = "Base_K" -> "Base_M"
      [] base = "Base_M" -> "Base_K"
      [] base = "Base_B" -> "Base_V"
      [] base = "Base_D" -> "Base_H"
      [] base = "Base_H" -> "Base_D"
      [] base = "Base_V" -> "Base_B"
      [] base = "Base_N" -> "Base_N"

\* IupacBase::to_regex with a wildcard for every ambiguous code.
base_to_regex_Wildcard(base) ==
    CASE base = "Base_A" -> <<"A">> [] base = "Base_T" -> <<"T">>
      [] base = "Base_G" -> <<"G">> [] base = "Base_C" -> <<"C">>
      [] OTHER -> <<".">>

\* IupacBase::to_regex: the fragment, as the characters of the &str.
base_to_regex(base) ==
    CASE base = "Base_A" -> <<"A">>
      [] base = "Base_T" -> <<"T">>
      [] base = "Base_G" -> <<"G">>
      [] base = "Base_C" -> <<"C">>
      [] base = "Base_R" -> <<"[", "A", "G", "]">>
      [] base = "Base_Y" -> <<"[", "C", "T", "]">>
      [] base = "Base_S" -> <<"[", "C", "G", "]">>
      [] base = "Base_W" -> <<"[", "A", "T", "]">>
      [] base = "Base_K" -> <<"[", "G", "T", "]">>
      [] base = "Base_M" -> <<"[", "A", "C", "]">>
      [] base = "Base_B" -> <<"[", "C", "G", "T", "]">>
      [] base = "Base_D" -> <<"[", "A", "G", "T", "]">>
      [] base = "Base_H" -> <<"[", "A", "C", "T", "]">>
      [] base = "Base_V" -> <<"[", "A", "C", "G", "]">>
      [] base = "Base_N" -> <<".">>

\* The tables of the string-based Motif. IUPAC_MAPPING.get(c): the characters
\* of the entry of c, <<>> where the map has none.
IUPAC_MAPPING(c) ==
    CASE c = "R" -> <<"A", "G">>
      [] c = "Y" -> <<"C", "T">>
      [] c = "S" -> <<"C", "G">>
      [] c = "W" -> <<"A", "T">>
      [] c = "K" -> <<"G", "T">>
      [] c = "M" -> <<"A", "C">>
      [] c = "B" -> <<"C", "G", "T">>
      [] c = "D" -> <<"A", "G", "T">>
      [] c = "H" -> <<"A", "C", "T">>
      [] c = "V" -> <<"A", "C", "G">>
      [] c = "N" -> <<".">>
      [] OTHER -> <<>>

\* COMPLEMENT_BASE.get(c), with the character itself where the map has no
\* entry, as reverse_complement of the string-based Motif takes it.
COMPLEMENT_BASE(c) ==
    CASE c = "A" -> "T"
      [] c = "T" -> "A"
      [] c = "G" -> "C"
      [] c = "C" -> "G"
      [] c = "R" -> "Y"
      [] c = "Y" -> "R"
      [] c = "S" -> "S"
      [] c = "W" -> "W"
      [] c = "K" -> "M"
      [] c = "M" -> "K"
      [] c = "B" -> "V"
      [] c = "D" -> "H"
      [] c = "H" -> "D"
      [] c = "V" -> "B"
      [] c = "." -> "."
      [] c = "[" -> "]"
      [] c = "]" -> "["
      [] c = "N" -> "N"
      [] OTHER -> c

\* The fragment to_regex of the string-based Motif writes for one character:
\* the entry of IUPAC_MAPPING in brackets, "." as it is, and the character
\* itself where the map has no entry.
char_to_regex(c) ==
    LET s == IUPAC_MAPPING(c) IN
    IF s = <<>> THEN <<c>>
    ELSE IF s = <<".">> THEN <<".">>
    ELSE <<"[">> \o s \o <<"]">>

\* A Result<Motif>: Ok(v), Err(cause), or a panic of the call.
MotifOk(m) == [kind |-> "Ok", cause |-> NoneV, v |-> m]

MotifErr(cause) == [kind |-> "Err", cause |-> cause, v |-> NoMotif]

MotifPanic(cause) == [kind |-> "Panic", cause |-> cause, v |-> NoMotif]

\* Motif::new. `parsed_sequence.len() - 1` is a usize subtraction: for an
\* empty sequence it panics when the build checks overflow and wraps to
\* usize::MAX otherwise; no u8 exceeds usize::MAX, so the bounds test passes
\* and `parsed_sequence[mod_position]` panics on the empty vector.
MotifNew(sequence, mod_code, mod_position) ==
    LET mod_type == ModTypeFromStr(mod_code)
        len      == Len(sequence)
        parsed   == [i \in 1..len |-> parse_char(sequence[i]).v]
    IN  IF ~mod_type.ok THEN MotifErr("UnsupportedModType")
        ELSE IF \E i \in 1..len : ~parse_char(sequence[i]).ok THEN MotifErr("InvalidBase")
        ELSE IF len = 0 /\ overflow_checks THEN MotifPanic("SubtractOverflow")
        ELSE IF len = 0 THEN MotifPanic("IndexOutOfBounds")
        ELSE IF mod_position > len - 1 THEN MotifErr("OutOfBounds")
        ELSE LET base_at_position == parsed[mod_position + 1] IN
             IF mod_type.v = "SixMA" /\ base_at_position # "Base_A"
             THEN MotifErr("IncompatibleBase")
             ELSE IF mod_type.v \in {"FiveMC", "FourMC"} /\ base_at_position # "Base_C"
             THEN MotifErr("IncompatibleBase")
             ELSE MotifOk([sequence |-> parsed, mod_type |-> mod_type.v,
                           mod_position |-> mod_position])

\* Motif::reverse_complement that complements without reversing.
reverse_complement_NoReverse(m) ==
    LET n == Len(m.sequence) IN
    MotifOk([sequence |-> [i \in 1..n |-> to_complement_base(m.sequence[i])],
             mod_type |-> m.mod_type,
             mod_position |-> (n - m.mod_position - 1) % U8Modulus])

\* Motif::reverse_complement. `self.sequence.len() as u8 - self.mod_position - 1`
\* is u8 arithmetic: the length is truncated to 8 bits, and each subtraction
\* that goes below zero panics when the build checks overflow and wraps
\* otherwise.
reverse_complement(m) ==
    LET n      == Len(m.sequence)
        len_u8 == n % U8Modulus
        first  == len_u8 - m.mod_position
        second == ((first + U8Modulus) % U8Modulus) - 1
    IN  IF overflow_checks /\ (first < 0 \/ second < 0)
        THEN MotifPanic("SubtractOverflow")
        ELSE MotifOk([sequence |-> [i \in 1..n |-> to_complement_base(m.sequence[n + 1 - i])],
                      mod_type |-> m.mod_type,
                      mod_position |-> (second + U8Modulus) % U8Modulus])

\* Motif::to_regex: the fragments of the bases, concatenated in order.
RECURSIVE ConcatFragments(_, _)
ConcatFragments(sequence, i) ==
    IF i > Len(sequence) THEN <<>>
    ELSE base_to_regex(sequence[i]) \o ConcatFragments(sequence, i + 1)

to_regex(m) == ConcatFragments(m.sequence, 1)

\* Regex::new on the patterns to_regex builds: a literal, a bracketed class or
\* a dot per position.
RECURSIVE RegexNew(_, _)
RegexNew(pattern, i) ==
    IF i > Len(pattern) THEN <<>>
    ELSE IF pattern[i] = "["
    THEN LET closes == { j \in (i + 1)..Len(pattern) : pattern[j] = "]" }
             close  == CHOOSE j \in closes : \A k \in closes : j <= k
         IN  <<[any |-> FALSE, chars |-> { pattern[k] : k \in (i + 1)..(close - 1) }]>>
                 \o RegexNew(pattern, close + 1)
    ELSE IF pattern[i] = "."
    THEN <<[any |-> TRUE, chars |-> {}]>> \o RegexNew(pattern, i + 1)
    ELSE <<[any |-> FALSE, chars |-> {pattern[i]}]>> \o RegexNew(pattern, i + 1)

\* The regex matches text[s .. s + Len(re) - 1] (s counts from 1).
MatchAt(re, text, s) ==
    /\ s + Len(re) - 1 <= Len(text)
    /\ \A i \in 1..Len(re) : re[i].any \/ text[s + i - 1] \in re[i].chars

\* Regex::find_iter: the leftmost match from s on, then the search goes on
\* where that match ended. The starts are counted from 0, as Match::start.
RECURSIVE find_iter(_, _, _)
find_iter(re, text, s) ==
    IF s + Len(re) - 1 > Len(text) THEN <<>>
    ELSE IF MatchAt(re, text, s)
    THEN <<s - 1>> \o find_iter(re, text, s + (IF Len(re) = 0 THEN 1 ELSE Len(re)))
    ELSE find_iter(re, text, s + 1)

\* find_motif_indices_in_contig
find_motif_indices_in_contig(contig, m) ==
    LET re     == RegexNew(to_regex(m), 1)
        starts == find_iter(re, contig, 1)
    IN  [i \in 1..Len(starts) |-> starts[i] + m.mod_position]

\* ---- inputs
\* Characters motif strings are made of: the four bases, two ambiguity codes
\* and a character that is no IUPAC code.
MotifChars == {"A", "C", "G", "T", "R", "N", "Z"}

ContigChars == {"A", "C", "G", "T"}

RECURSIVE Strings(_, _)
Strings(chars, n) ==
    IF n = 0 THEN { <<>> }
    ELSE LET shorter == Strings(chars, n - 1)
         IN  shorter \cup { Append(t, ch) : t \in { u \in shorter : Len(u) = n - 1 },
                                            ch \in chars }

\* Motifs at the edge of u8: the longest whose length fits, and one longer.
LongMotifs == { [i \in 1..n |-> "A"] : n \in {U8Modulus - 1, U8Modulus} }

MotifStrings == Strings(MotifChars, MaxMotifLen) \cup LongMotifs

ModCodes == {"a", "m", "21839", "d"}

MotifPositions == (0..MaxMotifLen) \cup {U8Modulus - 2, U8Modulus - 1}

ContigSeqs == Strings(ContigChars, MaxContigLen)

\* ---- actions
\* The motif is immutable and every method takes &self, so a call's result
\* does not depend on the calls before it: a run builds one motif and makes
\* one call on it (two for the double reverse complement).
Fresh == motif.kind = "Ok" /\ reply.op = "Motif::new"

\* The pattern and the search are explored for the motifs built from
\* MotifChars, not for the two at the edge of u8.
Short == Len(motif.v.sequence) <= MaxMotifLen

\* Motif::new(sequence, mod_code, mod_position)
MotifNewCall ==
    /\ motif = NoMotif
    /\ \E sequence \in MotifStrings, mod_code \in ModCodes, mod_position \in MotifPositions :
          LET r == MotifNew(sequence, mod_code, mod_position) IN
          /\ motif' = r
          /\ reply' = [op |-> "Motif::new", sequence |-> sequence, mod_code |-> mod_code,
                       mod_position |-> mod_position, result |-> r]
    /\ UNCHANGED <<loaderVars, contigVars, aggVars, overflow_checks>>

\* motif.reverse_complement()
ReverseComplement ==
    /\ Fresh
    /\ reply' = [op |-> "reverse_complement", of |-> motif.v,
                 result |-> reverse_complement(motif.v)]
    /\ UNCHANGED <<loaderVars, contigVars, aggVars, motifVars>>

\* motif.reverse_complement().reverse_complement()
ReverseComplementTwice ==
    /\ reply.op = "reverse_complement"
    /\ reply.result.kind = "Ok"
    /\ reply' = [op |-> "reverse_complement_twice", of |-> reply.of,
                 result |-> reverse_complement(reply.result.v)]
    /\ UNCHANGED <<loaderVars, contigVars, aggVars, motifVars>>

\* motif.to_regex()
ToRegex ==
    /\ Fresh
    /\ Short
    /\ reply' = [op |-> "to_regex", of |-> motif.v, result |-> to_regex(motif.v)]
    /\ UNCHANGED <<loaderVars, contigVars, aggVars, motifVars>>

\* find_motif_indices_in_contig(contig, &motif) and, as the aggregation calls
\* it for the reverse strand, find_motif_indices_in_contig(contig,
\* &motif.reverse_complement()).
FindMotifIndices ==
    /\ Fresh
    /\ Short
    /\ \E contig \in ContigSeqs, reverse \in BOOLEAN :
          LET target == IF reverse THEN reverse_complement(motif.v) ELSE MotifOk(motif.v) IN
          reply' = [op |-> "find_motif_indices_in_contig", contig |-> contig,
                    of |-> motif.v, reverse |-> reverse, kind |-> target.kind,
                    result |-> IF target.kind = "Ok"
                               THEN find_motif_indices_in_contig(contig, target.v)
                               ELSE <<>>]
    /\ UNCHANGED <<loaderVars, contigVars, aggVars, motifVars>>

MotifInit ==
    /\ LoaderIdle
    /\ ContigIdle
    /\ AggIdle
    /\ motif = NoMotif
    /\ overflow_checks \in BOOLEAN
    /\ reply = NoReply

MotifNext ==
    \/ MotifNewCall
    \/ ReverseComplement
    \/ ReverseComplementTwice
    \/ ToRegex
    \/ FindMotifIndices

MotifSpec == MotifInit /\ [][MotifNext]_vars

\* ---- vocabulary of the claims
\* The concrete bases an IUPAC code stands for.
Denotes(base) ==
    CASE base = "Base_A" -> {"A"}
      [] base = "Base_T" -> {"T"}
      [] base = "Base_G" -> {"G"}
      [] base = "Base_C" -> {"C"}
      [] base = "Base_R" -> {"A", "G"}
      [] base = "Base_Y" -> {"C", "T"}
      [] base = "Base_S" -> {"C", "G"}
      [] base = "Base_W" -> {"A", "T"}
      [] base = "Base_K" -> {"G", "T"}
      [] base = "Base_M" -> {"A", "C"}
      [] base = "Base_B" -> {"C", "G", "T"}
      [] base = "Base_D" -> {"A", "G", "T"}
      [] base = "Base_H" -> {"A", "C", "T"}
      [] base = "Base_V" -> {"A", "C", "G"}
      [] base = "Base_N" -> {"A", "C", "G", "T"}

\* The Watson-Crick partner of a concrete base.
WatsonCrick(ch) ==
    CASE ch = "A" -> "T" [] ch = "T" -> "A" [] ch = "C" -> "G" [] ch = "G" -> "C"

\* The IUPAC complement of a code: the code that stands for the partners of
\* the bases it stands for.
ComplementOf(base) ==
    CHOOSE c \in IupacBases : Denotes(c) = { WatsonCrick(ch) : ch \in Denotes(base) }

\* The modification type a pileup code names, and the base that carries it.
ModTypeOf(mod_code) ==
    CASE mod_code = "a" -> "SixMA" [] mod_code = "m" -> "FiveMC"
      [] mod_code = "21839" -> "FourMC"

TargetBase(mod_code) == IF mod_code = "a" THEN "A" ELSE "C"

IupacChars == {"A", "T", "G", "C", "R", "Y", "S", "W", "K", "M", "B", "D", "H", "V", "N"}

\* The whole text is one match of the regex.
FullMatch(re, text) == Len(text) = Len(re) /\ MatchAt(re, text, 1)

\* The motif occurs in the text at start p (counted from 0).
OccursAt(m, text, p) ==
    /\ p + Len(m.sequence) <= Len(text)
    /\ \A i \in 1..Len(m.sequence) : text[p + i] \in Denotes(m.sequence[i])

\* The reverse complement of a contig sequence.
RevCompText(text) == [i \in 1..Len(text) |-> WatsonCrick(text[Len(text) + 1 - i])]

Elements(list) == { list[i] : i \in 1..Len(list) }

\* --------------------------------------------------------------------- C14
\* C14: Motif::new returns an error, and does not panic, when the mod code is
\* none of a / m / 21839, when a character is no IUPAC code, when the position
\* is at or beyond the length of the sequence (the empty sequence included),
\* or when the base at the position is not A for 6mA / not C for 5mC and 4mC;
\* otherwise it returns the motif with the parsed sequence, the mod type and
\* the position as given.
C14_MotifNewContract ==
    reply.op = "Motif::new" =>
        LET seq     == reply.sequence
            p       == reply.mod_position
            badcode == reply.mod_code \notin {"a", "m", "21839"}
            badchar == \E i \in 1..Len(seq) : seq[i] \notin IupacChars
            outside == p >= Len(seq)
            wrong   == ~outside /\ seq[p + 1] # TargetBase(reply.mod_code)
        IN  IF badcode \/ badchar \/ outside \/ wrong
            THEN reply.result.kind = "Err"
            ELSE /\ reply.result.kind = "Ok"
                 /\ reply.result.v.sequence = [i \in 1..Len(seq) |-> parse_char(seq[i]).v]
                 /\ reply.result.v.mod_type = ModTypeOf(reply.mod_code)
                 /\ reply.result.v.mod_position = p

\* --------------------------------------------------------------------- C15
\* C15: for every motif accepted by Motif::new, reverse_complement and the
\* reverse_complement of its result both return, and the second result equals
\* the motif in sequence, mod_type and mod_position; the complement of the
\* complement of each of the 15 IUPAC bases is the base.
C15_ReverseComplementRoundTrip ==
    /\ reply.op = "reverse_complement" => reply.result.kind = "Ok"
    /\ reply.op = "reverse_complement_twice" =>
          /\ reply.result.kind = "Ok"
          /\ reply.result.v = reply.of
    /\ \A b \in IupacBases : to_complement_base(to_complement_base(b)) = b

\* --------------------------------------------------------------------- C16
\* C16: for an accepted motif m of length n, 1 <= n <= 255, reverse_complement
\* returns a motif whose i-th base is the IUPAC complement of m's base at index
\* n-1-i, whose mod_position is n-1-m.mod_position and whose mod_type is m's;
\* m is left as it was.
C16_ReverseComplement ==
    (/\ reply.op = "reverse_complement"
     /\ Len(reply.of.sequence) >= 1
     /\ Len(reply.of.sequence) <= U8Modulus - 1) =>
        LET m == reply.of
            n == Len(m.sequence)
        IN  /\ reply.result.kind = "Ok"
            /\ Len(reply.result.v.sequence) = n
            /\ \A i \in 0..(n - 1) :
                  reply.result.v.sequence[i + 1] = ComplementOf(m.sequence[n - i])
            /\ reply.result.v.mod_position = n - 1 - m.mod_position
            /\ reply.result.v.mod_type = m.mod_type
            /\ motif.v = m

\* The reverse complement of a motif with an ambiguity code that is not its
\* own reverse complement, and whose modified base moved.
C16_Witness ==
    /\ reply.op = "reverse_complement"
    /\ reply.result.kind = "Ok"
    /\ \E i \in 1..Len(reply.of.sequence) : reply.of.sequence[i] = "Base_R"
    /\ reply.result.v.sequence # reply.of.sequence
    /\ reply.result.v.mod_position # reply.of.mod_position

\* --------------------------------------------------------------------- C17
\* C17: to_regex is the in-order concatenation of one fragment per base: the
\* pattern compiles to one position per base, each the compiled fragment of
\* that base; a fragment matches exactly the concrete bases its code stands
\* for (a class, not a wildcard, except "." for N); so a text over {A,C,G,T} is
\* matched in full iff it is as long as the motif and its i-th character is one
\* of the bases the motif's i-th code stands for.
C17_ToRegex ==
    /\ reply.op = "to_regex" =>
          LET m  == reply.of
              re == RegexNew(reply.result, 1)
          IN  /\ Len(re) = Len(m.sequence)
              /\ \A i \in 1..Len(m.sequence) :
                    re[i] = RegexNew(base_to_regex(m.sequence[i]), 1)[1]
              /\ \A text \in ContigSeqs :
                    FullMatch(re, text) <=>
                        /\ Len(text) = Len(m.sequence)
                        /\ \A i \in 1..Len(text) : text[i] \in Denotes(m.sequence[i])
    /\ reply.op = "to_regex" => \A b \in IupacBases :
          LET re == RegexNew(base_to_regex(b), 1) IN
          /\ Len(re) = 1
          /\ \A ch \in ContigChars : MatchAt(re, <<ch>>, 1) <=> ch \in Denotes(b)
          /\ re[1].any <=> b = "Base_N"
          /\ Cardinality(Denotes(b)) = 1 => base_to_regex(b) = <<CHOOSE ch \in Denotes(b) : TRUE>>

\* The pattern of a motif with an ambiguity class: longer than the motif.
C17_Witness ==
    /\ reply.op = "to_regex"
    /\ \E i \in 1..Len(reply.of.sequence) : reply.of.sequence[i] = "Base_R"
    /\ Len(reply.result) > Len(reply.of.sequence)

\* --------------------------------------------------------------------- C18
\* C18: find_motif_indices_in_contig(contig, motif) returns, in increasing
\* order, exactly p + mod_position for every start p at which the motif occurs
\* in the contig; occurrences that overlap an earlier one are reported too.
C18_EveryStartReported ==
    (reply.op = "find_motif_indices_in_contig" /\ ~reply.reverse) =>
        LET m        == reply.of
            expected == { p + m.mod_position :
                            p \in { q \in 0..Len(reply.contig) : OccursAt(m, reply.contig, q) } }
        IN  /\ Elements(reply.result) = expected
            /\ Len(reply.result) = Cardinality(expected)
            /\ \A i, j \in 1..Len(reply.result) : i < j => reply.result[i] < reply.result[j]

\* --------------------------------------------------------------------- C19
\* C19: the positions found for motif.reverse_complement() in a contig of
\* length L are exactly L - 1 - q for the positions q found for the motif in
\* the reverse complement of the contig.
C19_ReverseStrandPositions ==
    (reply.op = "find_motif_indices_in_contig" /\ reply.reverse /\ reply.kind = "Ok") =>
        Elements(reply.result) =
            { Len(reply.contig) - 1 - q :
                q \in Elements(find_motif_indices_in_contig(RevCompText(reply.contig), reply.of)) }

\* --------------------------------------------------------------------- C30
\* The concrete bases a regex fragment matches.
Matched(fragment) ==
    { ch \in ContigChars : FullMatch(RegexNew(fragment, 1), <<ch>>) }

\* C30: for each of the 15 IUPAC bases, in the enum and in the tables of the
\* string-based Motif alike, the fragment of the complement of the base
\* matches exactly the Watson-Crick partners of the bases the fragment of the
\* base matches; and a window matches a motif iff the reverse complement of
\* the window matches the reverse complement of the motif.
C30_ComplementConsistentWithRegex ==
    (reply.op = "reverse_complement" /\ Len(reply.of.sequence) <= MaxMotifLen) =>
        /\ \A b \in IupacBases :
              Matched(base_to_regex(to_complement_base(b))) =
                  { WatsonCrick(ch) : ch \in Matched(base_to_regex(b)) }
        /\ \A c \in IupacChars :
              Matched(char_to_regex(COMPLEMENT_BASE(c))) =
                  { WatsonCrick(ch) : ch \in Matched(char_to_regex(c)) }
        /\ reply.result.kind = "Ok"
        /\ \A window \in ContigSeqs :
              FullMatch(RegexNew(to_regex(reply.of), 1), window) <=>
                  FullMatch(RegexNew(to_regex(reply.result.v), 1), RevCompText(window))

\* A motif with an ambiguity code, a window it matches that is not its own
\* reverse complement, and the reverse complement of the motif matching the
\* reverse complement of the window.
C30_Witness ==
    /\ reply.op = "reverse_complement"
    /\ reply.result.kind = "Ok"
    /\ Len(reply.of.sequence) = MaxMotifLen
    /\ \E i \in 1..Len(reply.of.sequence) : reply.of.sequence[i] = "Base_R"
    /\ \E window \in ContigSeqs :
          /\ RevCompText(window) # window
          /\ FullMatch(RegexNew(to_regex(reply.of), 1), window)
          /\ FullMatch(RegexNew(to_regex(reply.result.v), 1), RevCompText(window))
          /\ ~FullMatch(RegexNew(to_regex(reply.result.v), 1), window)

\* ===================================================================
\* AggSpec: calculate_contig_read_methylation_pattern
\* ===================================================================
\* Most rows in a per-contig frame.
MaxRows == 2
\* Longest motif list.
MaxMotifs == 2

\* The ContigMap handed to the aggregation: the ids of the assembly with
\* their sequences.
ContigSequence(id) == IF id = "X" THEN <<"G", "A", "T">> ELSE <<"C", "C", "C">>

\* Float64 values are modelled as exact fractions <<numerator, denominator>>
\* in lowest terms (numerator >= 0, denominator > 0); rounding is left out.
RECURSIVE Gcd(_, _)
Gcd(a, b) == IF b = 0 THEN a ELSE Gcd(b, a % b)

Rat(n, d) == LET g == Gcd(n, d) IN <<n \div g, d \div g>>

RatLeq(a, b) == a[1] * b[2] <= b[1] * a[2]

RatAdd(a, b) == Rat(a[1] * b[2] + b[1] * a[2], a[2] * b[2])

\* a - b, for b <= a.
RatSub(a, b) == Rat(a[1] * b[2] - b[1] * a[2], a[2] * b[2])

RatMul(a, b) == Rat(a[1] * b[1], a[2] * b[2])

\* A row of a frame as create_subpileups hands it over: the selected columns
\* and motif_mean = N_modified / N_valid_cov, both cast to Float64. The rows
\* of the model have N_valid_cov >= 1.
Observation(c, strand, mod_type, start, n_modified, n_valid_cov) ==
    [contig |-> c, strand |-> strand, mod_type |-> mod_type, start |-> start,
     n_modified |-> n_modified, n_valid_cov |-> n_valid_cov,
     motif_mean |-> Rat(n_modified, n_valid_cov)]

\* A row of a frame: the columns the aggregation reads.
PRow(c, strand, mod_type, start) == Observation(c, strand, mod_type, start, 1, 1)

\* Rows a frame of the contig may hold: on and off the positions the motifs
\* occur at, on either strand, with either mod code; one row for M, which the
\* ContigMap does not hold.
RowsOf(c) ==
    IF c = "M" THEN { PRow(c, "+", "m", 0) }
    ELSE IF c = "X"
    THEN { PRow(c, "+", "a", 1), PRow(c, "-", "a", 2), PRow(c, "-", "a", 1),
           PRow(c, "+", "m", 1), PRow(c, "-", "m", 0), PRow(c, "+", "a", 2) }
    ELSE { PRow(c, "+", "m", 0), PRow(c, "+", "m", 1), PRow(c, "-", "m", 0),
           PRow(c, "+", "a", 0) }

\* create_subpileups partitions the rows by contig: a frame is not empty and
\* holds rows of one contig, and a contig has at most one frame. {} stands
\* for a contig without a frame; a pileup with no row left gives the empty
\* list. The aggregation itself accepts a frame of any contig.
FrameChoices(c) == { f \in SUBSET RowsOf(c) : Cardinality(f) <= MaxRows }

SubpileupLists ==
    { SelectSeq(<<fx, fy, fm>>, LAMBDA f : f # {}) :
        fx \in FrameChoices("X"), fy \in FrameChoices("Y"), fm \in FrameChoices("M") }

\* The motifs the list is made of, as Motif::new builds them.
AggMotifs ==
    { MotifNew(<<"A">>, "a", 0).v, MotifNew(<<"C">>, "m", 0).v,
      MotifNew(<<"C", "C">>, "m", 0).v }

MotifLists == Strings(AggMotifs, MaxMotifs)

\* ModType::to_pileup_code
to_pileup_code(mod_type) ==
    CASE mod_type = "SixMA" -> "a" [] mod_type = "FiveMC" -> "m"
      [] mod_type = "FourMC" -> "21839"

\* The filter of p_con without the strand tests.
QualifyingRows_AnyStrand(frame, m, contig_seq) ==
    LET mod_type    == to_pileup_code(m.mod_type)
        fwd_indices == find_motif_indices_in_contig(contig_seq, m)
        rev_indices == find_motif_indices_in_contig(contig_seq, reverse_complement(m).v)
    IN  IF fwd_indices = <<>> /\ rev_indices = <<>> THEN {}
        ELSE { r \in frame :
                 /\ r.mod_type = mod_type
                 /\ r.start \in Elements(fwd_indices) \cup Elements(rev_indices) }

\* The body of `for motif in motifs.iter()` up to p_con: nothing when the
\* motif occurs on neither strand, otherwise the rows of the motif's mod type
\* at a forward index with strand + or at a reverse index with strand -.
QualifyingRows(frame, m, contig_seq) ==
    LET mod_type    == to_pileup_code(m.mod_type)
        fwd_indices == find_motif_indices_in_contig(contig_seq, m)
        rev_indices == find_motif_indices_in_contig(contig_seq, reverse_complement(m).v)
    IN  IF fwd_indices = <<>> /\ rev_indices = <<>> THEN {}
        ELSE { r \in frame :
                 /\ r.mod_type = mod_type
                 /\ \/ r.strand = "+" /\ r.start \in Elements(fwd_indices)
                    \/ r.strand = "-" /\ r.start \in Elements(rev_indices) }

\* The rows of a group, in the order the frame holds them (any order: the
\* aggregates below do not depend on it).
RECURSIVE RowList(_)
RowList(rows) ==
    IF rows = {} THEN <<>>
    ELSE LET r == CHOOSE x \in rows : TRUE IN <<r>> \o RowList(rows \ {r})

\* Ascending sort of a sequence of fractions.
RECURSIVE Insert(_, _)
Insert(sorted, v) ==
    IF sorted = <<>> THEN <<v>>
    ELSE IF RatLeq(v, Head(sorted)) THEN <<v>> \o sorted
    ELSE <<Head(sorted)>> \o Insert(Tail(sorted), v)

RECURSIVE Sort(_)
Sort(values) == IF values = <<>> THEN <<>> ELSE Insert(Sort(Tail(values)), Head(values))

\* Expr::median taking the lower of the two central values of an even count.
Median_Lower(values) ==
    LET sorted == Sort(values) IN sorted[((Len(values) - 1) \div 2) + 1]

\* Expr::median of a non-empty Float64 column: the 0.5 quantile with linear
\* interpolation. The sorted column is read at (len - 1) / 2: the value
\* there when that index is whole, otherwise the lower neighbour plus half
\* the distance to the upper one.
Median(values) ==
    LET sorted == Sort(values)
        idx    == (Len(values) - 1) \div 2
    IN  IF (Len(values) - 1) % 2 = 0 THEN sorted[idx + 1]
        ELSE RatAdd(sorted[idx + 1],
                    RatMul(<<1, 2>>, RatSub(sorted[idx + 2], sorted[idx + 1])))

RECURSIVE Sum(_)
Sum(values) == IF values = <<>> THEN <<0, 1>> ELSE RatAdd(Head(values), Sum(Tail(values)))

\* Expr::mean of a non-empty Float64 column.
Mean(values) == RatMul(Sum(values), <<1, Len(values)>>)

\* group_by([contig]).agg(..).with_columns(..): one record per contig value
\* among the rows, none for no rows. `rows` keeps the rows aggregated.
RECURSIVE GroupBy(_, _, _)
GroupBy(rows, ids, m) ==
    IF ids = {} THEN <<>>
    ELSE LET id    == CHOOSE c \in ids : TRUE
             group == { r \in rows : r.contig = id }
             list  == RowList(group)
         IN  <<[contig |-> id,
                median |-> Median([i \in 1..Len(list) |-> list[i].motif_mean]),
                N_motif_obs |-> Len(list),
                mean_read_cov |-> Mean([i \in 1..Len(list) |-> <<list[i].n_valid_cov, 1>>]),
                motif |-> m.sequence, mod_type |-> to_pileup_code(m.mod_type),
                mod_position |-> m.mod_position, rows |-> group]>>
                 \o GroupBy(rows, ids \ {id}, m)

\* The loop over the motifs: the records of each motif are appended to the
\* frame's local result.
RECURSIVE LocalResult(_, _, _, _)
LocalResult(frame, contig_seq, ms, j) ==
    IF j > Len(ms) THEN <<>>
    ELSE LET rows == QualifyingRows(frame, ms[j], contig_seq)
         IN  GroupBy(rows, { r.contig : r \in rows }, ms[j])
                 \o LocalResult(frame, contig_seq, ms, j + 1)

\* The contig column's first value.
FrameContig(frame) == (CHOOSE r \in frame : TRUE).contig

\* concat of the vector of local results.
RECURSIVE Concat(_, _)
Concat(frames, i) ==
    IF i > Len(frames) THEN <<>> ELSE frames[i] \o Concat(frames, i + 1)

\* results_lock.push(..) on a vector that is not locked: a push that races
\* with another one overwrites it.
Push_Unlocked(vec, item) ==
    IF vec = <<>> THEN <<item>> ELSE [vec EXCEPT ![Len(vec)] = item]

\* results.lock() .. results_lock.push(..): the push happens under the mutex,
\* as one step.
Push(vec, item) == Append(vec, item)

\* One task of the parallel iterator: pending frames are taken in any order;
\* a frame of a contig the ContigMap does not hold is logged and dropped,
\* every other frame pushes its local result to the shared vector.
ProcessSubpileup ==
    /\ \E i \in pending :
          LET frame     == subpileups[i]
              contig_id == FrameContig(frame)
          IN  /\ pending' = pending \ {i}
              /\ results' = IF contig_id \in AssemblyIds
                            THEN Push(results,
                                      LocalResult(frame, ContigSequence(contig_id), motifs, 1))
                            ELSE results
    /\ UNCHANGED <<subpileups, motifs, reply>>
    /\ UNCHANGED <<loaderVars, contigVars, motifVars>>

\* After the parallel loop: the local results are concatenated and returned.
\* polars' concat fails on an empty list of frames ("empty container given"),
\* and the `?` hands that failure to the caller.
CollectResults ==
    /\ pending = {}
    /\ reply = NoReply
    /\ reply' = [op |-> "calculate_contig_read_methylation_pattern",
                 ok |-> results # <<>>, result |-> Concat(results, 1)]
    /\ UNCHANGED aggVars
    /\ UNCHANGED <<loaderVars, contigVars, motifVars>>

AggInit ==
    /\ LoaderIdle
    /\ ContigIdle
    /\ MotifIdle
    /\ subpileups \in SubpileupLists
    /\ motifs \in MotifLists
    /\ pending = 1..Len(subpileups)
    /\ results = <<>>
    /\ reply = NoReply

AggNext == ProcessSubpileup \/ CollectResults

AggSpec == AggInit /\ [][AggNext]_vars

\* --------------------------------------------------------------------- C20
\* The records of the result that belong to the contig and the motif.
RecordsOf(id, m) ==
    { k \in 1..Len(reply.result) :
        /\ reply.result[k].contig = id
        /\ reply.result[k].motif = m.sequence
        /\ reply.result[k].mod_type = to_pileup_code(m.mod_type)
        /\ reply.result[k].mod_position = m.mod_position }

\* Each frame and each motif of the list has one record when `rows` of them
\* is not empty and none otherwise; the record aggregates exactly those rows;
\* every record belongs to a frame and a motif of the list.
OneRecordPerPair(Rows_(_, _)) ==
    /\ \A i \in { f \in 1..Len(subpileups) : FrameContig(subpileups[f]) \in AssemblyIds },
          j \in 1..Len(motifs) :
          LET id   == FrameContig(subpileups[i])
              m    == motifs[j]
              rows == Rows_(subpileups[i], m)
              same == { l \in 1..Len(motifs) : motifs[l] = m }
          IN  /\ Cardinality(RecordsOf(id, m)) = IF rows = {} THEN 0 ELSE Cardinality(same)
              /\ \A k \in RecordsOf(id, m) :
                    /\ reply.result[k].rows = rows
                    /\ reply.result[k].N_motif_obs = Cardinality(rows)
    /\ \A k \in 1..Len(reply.result) :
          \E i \in 1..Len(subpileups), j \in 1..Len(motifs) :
              k \in RecordsOf(FrameContig(subpileups[i]), motifs[j])

\* The rows of the frame at a position the search returned: with strand +
\* for the motif, with strand - for its reverse complement.
AtSearchResult(frame, m) ==
    LET seq == ContigSequence(FrameContig(frame)) IN
    { r \in frame :
        /\ r.mod_type = to_pileup_code(m.mod_type)
        /\ \/ /\ r.strand = "+"
              /\ r.start \in Elements(find_motif_indices_in_contig(seq, m))
           \/ /\ r.strand = "-"
              /\ r.start \in Elements(find_motif_indices_in_contig(
                                          seq, reverse_complement(m).v)) }

\* The emission itself is as described when "occurrence position" is read as
\* "position the search returned" and a frame was processed.
RecordsFollowSearch ==
    (reply.op = "calculate_contig_read_methylation_pattern" /\ reply.ok) =>
        OneRecordPerPair(AtSearchResult)

\* The rows of the frame that qualify for the motif: the row has the motif's
\* mod code and sits, with strand +, on the modified base of an occurrence of
\* the motif in the contig's sequence or, with strand -, on the modified base
\* (in forward coordinates) of an occurrence in its reverse complement.
Qualifying(frame, m) ==
    LET seq == ContigSequence(FrameContig(frame))
        L   == Len(seq)
    IN  { r \in frame :
            /\ r.mod_type = to_pileup_code(m.mod_type)
            /\ \/ /\ r.strand = "+"
                  /\ \E p \in 0..L : OccursAt(m, seq, p) /\ r.start = p + m.mod_position
               \/ /\ r.strand = "-"
                  /\ \E q \in 0..L : /\ OccursAt(m, RevCompText(seq), q)
                                     /\ r.start = L - 1 - (q + m.mod_position) }

\* C20: the aggregation returns without error and, for each frame (contig)
\* and each motif of the list, its result has exactly one record when a row of
\* the frame qualifies and none when no row does; the record aggregates
\* exactly the qualifying rows of that contig and motif, and every record of
\* the result belongs to a frame and a motif of the list.
C20_OneRecordPerPair ==
    reply.op = "calculate_contig_read_methylation_pattern" =>
        /\ reply.ok
        /\ OneRecordPerPair(Qualifying)

\* --------------------------------------------------------------------- C22
\* C22: every record of the result belongs to a frame (contig) and a motif of
\* the list, and the observations it aggregates are rows of that frame which
\* have the motif's mod code and sit either, with strand +, on the modified
\* base of a forward occurrence or, with strand -, on the modified base of a
\* reverse-complement occurrence; the record counts exactly those rows, so a
\* row on the other strand's position and a site without a row count nothing.
C22_OnlyQualifyingCounted ==
    reply.op = "calculate_contig_read_methylation_pattern" =>
        \A k \in 1..Len(reply.result) :
            \E i \in 1..Len(subpileups), j \in 1..Len(motifs) :
                /\ k \in RecordsOf(FrameContig(subpileups[i]), motifs[j])
                /\ reply.result[k].rows \subseteq Qualifying(subpileups[i], motifs[j])
                /\ reply.result[k].N_motif_obs = Cardinality(reply.result[k].rows)

\* The frame of X (GAT) holds a + row on the A and a + row on the T, where
\* only the reverse complement of motif A occurs: the record of (X, A) counts
\* the first row alone.
C22_Witness ==
    /\ reply.op = "calculate_contig_read_methylation_pattern"
    /\ subpileups = << { PRow("X", "+", "a", 1), PRow("X", "+", "a", 2) } >>
    /\ motifs = << MotifNew(<<"A">>, "a", 0).v >>
    /\ Len(reply.result) = 1
    /\ reply.result[1].rows = { PRow("X", "+", "a", 1) }
    /\ reply.result[1].N_motif_obs = 1

\* --------------------------------------------------------------------- C23
\* The local results of the frames, in the order of the input list: what a
\* run whose tasks finish in input order pushes to the shared vector.
RECURSIVE InInputOrder(_)
InInputOrder(i) ==
    IF i > Len(subpileups) THEN <<>>
    ELSE LET frame == subpileups[i] IN
         (IF FrameContig(frame) \in AssemblyIds
          THEN <<LocalResult(frame, ContigSequence(FrameContig(frame)), motifs, 1)>>
          ELSE <<>>) \o InInputOrder(i + 1)

\* C23: whatever the scheduling of the tasks, the aggregation returns the
\* same records in the same order for the same frames and motif list: every
\* run returns what the run whose tasks finish in input order returns.
C23_IdenticalOutput ==
    reply.op = "calculate_contig_read_methylation_pattern" =>
        reply.result = Concat(InInputOrder(1), 1)

\* --------------------------------------------------------------------- C24
\* The two sequences hold the same elements the same number of times.
Count(list, x) == Cardinality({ i \in 1..Len(list) : list[i] = x })

SameBag(a, b) ==
    /\ Len(a) = Len(b)
    /\ \A i \in 1..Len(a) : Count(a, a[i]) = Count(b, a[i])

\* C24: when the aggregation returns, the shared vector holds one entry per
\* input frame whose contig is in the ContigMap, each the local result of its
\* frame (none lost, none twice), and the rows of the result are, as a
\* multiset, those of the run whose tasks finish in input order.
C24_OneEntryPerFrame ==
    reply.op = "calculate_contig_read_methylation_pattern" =>
        /\ Len(results) =
               Cardinality({ i \in 1..Len(subpileups) :
                               FrameContig(subpileups[i]) \in AssemblyIds })
        /\ SameBag(results, InInputOrder(1))
        /\ SameBag(reply.result, Concat(InInputOrder(1), 1))

\* Frames of X, Y and M (not in the ContigMap); Y's task pushed first.
C24_Witness ==
    /\ reply.op = "calculate_contig_read_methylation_pattern"
    /\ Len(subpileups) = 3
    /\ Len(results) = 2
    /\ results[1] # <<>>
    /\ results[2] # <<>>
    /\ results[1][1].contig = "Y"
    /\ results[2][1].contig = "X"

\* ===================================================================
\* GroupSpec: the group_by / agg step of the aggregation on its own
\* ===================================================================
\* Most rows of a filtered frame.
MaxObs == 4

\* (N_modified, N_valid_cov) of a row: the values of test_calculate_methylation
\* and one fraction that is no multiple of 1/4.
Coverages == { <<15, 15>>, <<5, 20>>, <<20, 20>>, <<1, 3>> }

\* The filtered frame p_con of one contig and one motif: rows at distinct
\* positions, each with a coverage of Coverages; possibly no row at all.
FilteredFrames ==
    { { Observation("X", "+", "a", i - 1, cs[i][1], cs[i][2]) : i \in 1..Len(cs) } :
        cs \in Strings(Coverages, MaxObs) }

\* p_con.group_by([col("contig")]).agg([..]).with_columns([..]) for the motif.
GroupByAgg ==
    /\ reply = NoReply
    /\ subpileups # <<>>
    /\ LET p_con == subpileups[1] IN
       reply' = [op |-> "group_by", rows |-> p_con,
                 result |-> GroupBy(p_con, { r.contig : r \in p_con }, motifs[1])]
    /\ UNCHANGED aggVars
    /\ UNCHANGED <<loaderVars, contigVars, motifVars>>

GroupInit ==
    /\ LoaderIdle
    /\ ContigIdle
    /\ MotifIdle
    /\ \E frame \in FilteredFrames : subpileups = <<frame>>
    /\ motifs = <<MotifNew(<<"A">>, "a", 0).v>>
    /\ pending = {}
    /\ results = <<>>
    /\ reply = NoReply

GroupNext == GroupByAgg

GroupSpec == GroupInit /\ [][GroupNext]_vars

\* --------------------------------------------------------------------- C21
\* x's fraction n_modified / n_valid_cov is below (at most) y's.
FractionLess(x, y) == x.n_modified * y.n_valid_cov < y.n_modified * x.n_valid_cov

FractionLeq(x, y) == x.n_modified * y.n_valid_cov <= y.n_modified * x.n_valid_cov

\* A row whose fraction is the k-th smallest of the rows' fractions.
Kth(rows, k) ==
    CHOOSE r \in rows :
        /\ Cardinality({ x \in rows : FractionLess(x, r) }) < k
        /\ k <= Cardinality({ x \in rows : FractionLeq(x, r) })

RECURSIVE TotalCoverage(_)
TotalCoverage(rows) ==
    IF rows = {} THEN 0
    ELSE LET r == CHOOSE x \in rows : TRUE IN r.n_valid_cov + TotalCoverage(rows \ {r})

\* C21: for a non-empty list of qualifying observations the step emits one
\* record whose N_motif_obs is the number of observations, whose
\* mean_read_cov is the arithmetic mean of their n_valid_cov, and whose median
\* is the median of the fractions n_modified / n_valid_cov: the central
\* element of the sorted fractions for an odd count, the arithmetic mean of
\* the two central elements for an even count.
C21_RecordStatistics ==
    (reply.op = "group_by" /\ reply.rows # {}) =>
        LET n   == Cardinality(reply.rows)
            rec == reply.result[1]
        IN  /\ Len(reply.result) = 1
            /\ rec.N_motif_obs = n
            /\ rec.mean_read_cov[1] * n = rec.mean_read_cov[2] * TotalCoverage(reply.rows)
            /\ IF n % 2 = 1
               THEN LET c == Kth(reply.rows, (n + 1) \div 2) IN
                    rec.median[1] * c.n_valid_cov = rec.median[2] * c.n_modified
               ELSE LET a == Kth(reply.rows, n \div 2)
                        b == Kth(reply.rows, (n \div 2) + 1)
                    IN  rec.median[1] * 2 * a.n_valid_cov * b.n_valid_cov =
                            rec.median[2] * (a.n_modified * b.n_valid_cov
                                             + b.n_modified * a.n_valid_cov)

\* The observations of test_calculate_methylation: fractions 1, 1/4, 1, 1/4
\* with coverages 15, 20, 20, 20 give median 5/8, mean coverage 75/4, count 4.
C21_Witness ==
    /\ reply.op = "group_by"
    /\ reply.rows = { Observation("X", "+", "a", 0, 15, 15), Observation("X", "+", "a", 1, 5, 20),
                      Observation("X", "+", "a", 2, 20, 20), Observation("X", "+", "a", 3, 5, 20) }
    /\ reply.result[1].median = <<5, 8>>
    /\ reply.result[1].mean_read_cov = <<75, 4>>
    /\ reply.result[1].N_motif_obs = 4

\* ===================================================================
\* SortSpec: extract_methylation_pattern, from the per-batch results to the
\* list handed to the writer
\* ===================================================================
\* Most records accumulated over the batches.
MaxRecords == 3

\* The byte a one-letter contig id is made of: String::cmp compares bytes.
ContigByte(id) == CASE id = "M" -> 77 [] id = "X" -> 88 [] id = "Y" -> 89

\* a.contig.cmp(&b.contig)
cmp(a, b) ==
    IF ContigByte(a.contig) < ContigByte(b.contig) THEN "Less"
    ELSE IF ContigByte(a.contig) = ContigByte(b.contig) THEN "Equal"
    ELSE "Greater"

\* An insertion that keeps one record per contig id.
RECURSIVE InsertSorted_DropEqual(_, _)
InsertSorted_DropEqual(sorted, rec) ==
    IF sorted = <<>> THEN <<rec>>
    ELSE IF cmp(rec, Head(sorted)) = "Less" THEN <<rec>> \o sorted
    ELSE IF cmp(rec, Head(sorted)) = "Equal" THEN sorted
    ELSE <<Head(sorted)>> \o InsertSorted_DropEqual(Tail(sorted), rec)

\* The record goes behind every record that is not greater: slice::sort_by is
\* a stable sort.
RECURSIVE InsertSorted(_, _)
InsertSorted(sorted, rec) ==
    IF sorted = <<>> THEN <<rec>>
    ELSE IF cmp(rec, Head(sorted)) = "Less" THEN <<rec>> \o sorted
    ELSE <<Head(sorted)>> \o InsertSorted(Tail(sorted), rec)

\* methylation_pattern_results.sort_by(|a, b| a.contig.cmp(&b.contig))
RECURSIVE sort_by(_)
sort_by(list) ==
    IF list = <<>> THEN <<>>
    ELSE InsertSorted(sort_by(SubSeq(list, 1, Len(list) - 1)), list[Len(list)])

\* The records a per-batch aggregation may return: a contig of the assembly
\* and a motif; a batch returns them in any order.
DegreeRecords == [contig : AssemblyIds, motif : {"GATC_a_1", "GATC_m_3"}]

BatchResults == Strings(DegreeRecords, 2)

\* methylation_pattern_results.append(&mut methylation_pattern), after a batch
\* (in SortSpec `results` is methylation_pattern_results).
AppendBatch ==
    /\ reply = NoReply
    /\ \E methylation_pattern \in BatchResults :
          /\ Len(results) + Len(methylation_pattern) <= MaxRecords
          /\ results' = results \o methylation_pattern
    /\ UNCHANGED <<subpileups, motifs, pending, reply>>
    /\ UNCHANGED <<loaderVars, contigVars, motifVars>>

\* After the last batch: the sort, and the list the writer loop goes through.
SortResults ==
    /\ reply = NoReply
    /\ results' = sort_by(results)
    /\ reply' = [op |-> "sort_by", before |-> results, result |-> sort_by(results)]
    /\ UNCHANGED <<subpileups, motifs, pending>>
    /\ UNCHANGED <<loaderVars, contigVars, motifVars>>

SortInit ==
    /\ LoaderIdle
    /\ ContigIdle
    /\ MotifIdle
    /\ AggIdle
    /\ reply = NoReply

SortNext == AppendBatch \/ SortResults

SortSpec == SortInit /\ [][SortNext]_vars

\* --------------------------------------------------------------------- C25
\* C25: the list handed to the writer is ordered by non-decreasing contig id
\* and holds the records the batches returned, each as often as they returned
\* it, whatever the order they came in.
C25_SortedPermutation ==
    reply.op = "sort_by" =>
        /\ \A i, j \in 1..Len(reply.result) :
              i < j => ContigByte(reply.result[i].contig) <= ContigByte(reply.result[j].contig)
        /\ SameBag(reply.result, reply.before)
        /\ results = reply.result

\* Three records came in with Y first and X twice; the writer gets X, X, Y.
C25_Witness ==
    /\ reply.op = "sort_by"
    /\ Len(reply.before) = 3
    /\ reply.before[1].contig = "Y"
    /\ reply.before[2].contig = "X"
    /\ reply.before[3].contig = "X"
    /\ reply.before[2] # reply.before[3]
    /\ reply.result = <<reply.before[2], reply.before[3], reply.before[1]>>

\* ===================================================================
\* CreateMotifsSpec: create_motifs
\* ===================================================================
\* Longest list of motif strings.
MaxSpecs == 2

\* A motif string is the sequence of its characters.
Digits == <<"0", "1", "2", "3", "4", "5", "6", "7", "8", "9">>

IsDigit(ch) == \E d \in 1..Len(Digits) : Digits[d] = ch

DigitValue(ch) == (CHOOSE d \in 1..Len(Digits) : Digits[d] = ch) - 1

\* motif.split("_"): the parts between the underscores, empty parts included.
RECURSIVE split(_, _, _)
split(chars, i, part) ==
    IF i > Len(chars) THEN <<part>>
    ELSE IF chars[i] = "_" THEN <<part>> \o split(chars, i + 1, <<>>)
    ELSE split(chars, i + 1, Append(part, chars[i]))

\* The value of a string of digits.
RECURSIVE Decimal(_)
Decimal(chars) ==
    IF chars = <<>> THEN 0
    ELSE 10 * Decimal(SubSeq(chars, 1, Len(chars) - 1)) + DigitValue(chars[Len(chars)])

\* u8::from_str: an optional '+', then at least one digit and digits only,
\* of a value below 256.
u8_from_str(chars) ==
    LET digits == IF chars # <<>> /\ chars[1] = "+" THEN Tail(chars) ELSE chars IN
    IF digits = <<>> THEN [ok |-> FALSE, v |-> 0]
    ELSE IF \E i \in 1..Len(digits) : ~IsDigit(digits[i]) THEN [ok |-> FALSE, v |-> 0]
    ELSE IF Decimal(digits) >= U8Modulus THEN [ok |-> FALSE, v |-> 0]
    ELSE [ok |-> TRUE, v |-> Decimal(digits)]

\* The &str handed to Motif::new as mod_type, as ModType::from_str matches it.
ModCodeOf(chars) ==
    IF chars = <<"a">> THEN "a"
    ELSE IF chars = <<"m">> THEN "m"
    ELSE IF chars = <<"2", "1", "8", "3", "9">> THEN "21839"
    ELSE "d"

\* The closure of create_motifs on one string.
create_motif(chars) ==
    LET parts == split(chars, 1, <<>>) IN
    IF Len(parts) # 3 THEN MotifErr("InvalidFormat")
    ELSE LET mod_position == u8_from_str(parts[3]) IN
         IF ~mod_position.ok THEN MotifErr("InvalidPosition")
         ELSE MotifNew(parts[1], ModCodeOf(parts[2]), mod_position.v)

\* create_motifs: map(..).collect::<Result<Vec<Motif>>>() stops at the first
\* string whose closure fails and returns that error; a panic of Motif::new
\* unwinds through it.
RECURSIVE create_motifs(_, _, _)
create_motifs(motifs_str, i, done) ==
    IF i > Len(motifs_str) THEN [kind |-> "Ok", cause |-> NoneV, v |-> done]
    ELSE LET r == create_motif(motifs_str[i]) IN
         IF r.kind = "Ok" THEN create_motifs(motifs_str, i + 1, Append(done, r.v))
         ELSE [kind |-> r.kind, cause |-> r.cause, v |-> <<>>]

\* The strings of the model: a sequence, a mod code and a position joined by
\* '_' (each part well or badly formed), and strings of 1, 2 and 4 parts.
SequenceParts == { <<>>, <<"A">>, <<"A", "C">> }

ModCodeParts == { <<"a">>, <<"x">> }

PositionParts == { <<"0">>, <<"1">>, <<"2", "5", "6">>, <<"x">>, <<>> }

MotifSpecStrings ==
    { sq \o <<"_">> \o mc \o <<"_">> \o ps :
        sq \in SequenceParts, mc \in ModCodeParts, ps \in PositionParts }
    \cup { <<"A">>, <<"A", "_", "a">>, <<"A", "_", "a", "_", "0", "_", "0">> }

\* create_motifs(motifs_str)
CreateMotifs ==
    /\ reply = NoReply
    /\ \E motifs_str \in Strings(MotifSpecStrings, MaxSpecs) :
          reply' = [op |-> "create_motifs", motifs_str |-> motifs_str,
                    result |-> create_motifs(motifs_str, 1, <<>>)]
    /\ UNCHANGED <<loaderVars, contigVars, motifVars, aggVars>>

CreateMotifsInit ==
    /\ LoaderIdle
    /\ ContigIdle
    /\ AggIdle
    /\ motif = NoMotif
    /\ overflow_checks \in BOOLEAN
    /\ reply = NoReply

CreateMotifsNext == CreateMotifs

CreateMotifsSpec == CreateMotifsInit /\ [][CreateMotifsNext]_vars

\* --------------------------------------------------------------------- C26
\* The positions of the underscores of a string.
Underscores(chars) == { i \in 1..Len(chars) : chars[i] = "_" }

\* The string has exactly three parts, its third part is a number below 256
\* and Motif::new accepts the three.
WellFormedSpec(chars) ==
    /\ Cardinality(Underscores(chars)) = 2
    /\ LET u1 == CHOOSE i \in Underscores(chars) : \A j \in Underscores(chars) : i <= j
           u2 == CHOOSE i \in Underscores(chars) : \A j \in Underscores(chars) : j <= i
           ps == SubSeq(chars, u2 + 1, Len(chars))
       IN  /\ u8_from_str(ps).ok
           /\ MotifNew(SubSeq(chars, 1, u1 - 1), ModCodeOf(SubSeq(chars, u1 + 1, u2 - 1)),
                       u8_from_str(ps).v).kind = "Ok"

\* C26: create_motifs returns a list only if every string is well formed,
\* and the list then holds one motif per string, in input order; if a string
\* is not well formed the call returns an error (it neither panics nor
\* returns a list).
C26_CreateMotifsContract ==
    reply.op = "create_motifs" =>
        LET strs == reply.motifs_str IN
        /\ reply.result.kind = "Ok" =>
              /\ \A i \in 1..Len(strs) : WellFormedSpec(strs[i])
              /\ Len(reply.result.v) = Len(strs)
              /\ \A i \in 1..Len(strs) : reply.result.v[i] = create_motif(strs[i]).v
        /\ (\E i \in 1..Len(strs) : ~WellFormedSpec(strs[i])) => reply.result.kind = "Err"

\* ===================================================================
\* BatchSpec: the batching loop of extract_methylation_pattern, and the
\* BatchLoader on the same pileup
\* ===================================================================
\* rdr.deserialize::<PileupRecord>(): every typed column of the row has to
\* parse, whatever its coverage.
deserialize(row) ==
    [ok |-> /\ ParseUnsigned(row.position).ok
            /\ ModTypeFromStr(row.mod_code).ok
            /\ StrandFromStr(row.strand).ok
            /\ ParseUnsigned(row.n_valid_cov).ok
            /\ ParseUnsigned(row.n_modified).ok,
     v |-> [contig |-> row.contig, position |-> row.position,
            mod_type |-> ModTypeFromStr(row.mod_code).v,
            strand |-> StrandFromStr(row.strand).v,
            n_valid_cov |-> row.n_valid_cov, n_modified |-> row.n_modified]]

\* PileupRecord -> MethylationRecord: the observation is built by
\* MethylationCoverage::new, whose failure is the conversion's.
try_into(pr) ==
    LET meth == MethylationCoverageNew(pr.n_modified, pr.n_valid_cov) IN
    IF ~meth.ok THEN [ok |-> FALSE, rec |-> NoneV]
    ELSE [ok |-> TRUE,
          rec |-> [contig |-> pr.contig, position |-> pr.position, strand |-> pr.strand,
                   mod_type |-> pr.mod_type, methylation |-> meth.v]]

\* GenomeWorkspaceBuilder::add_record: the record goes to its contig, whose
\* refusal (position out of bounds, site already stored) fails the call; a
\* record of a contig the builder does not hold is reported and dropped.
add_record(contigs, rec) ==
    IF \E c \in contigs : c.id = rec.contig
    THEN LET c     == CHOOSE d \in contigs : d.id = rec.contig
             added == add_methylation_record(c, rec)
         IN  IF ~added.ok THEN [ok |-> FALSE, contigs |-> contigs]
             ELSE [ok |-> TRUE, contigs |-> (contigs \ {c}) \cup {added.contig}]
    ELSE [ok |-> TRUE, contigs |-> contigs]

\* `for meth_rec in methylation_records.drain(..) { builder.add_record(meth_rec)?; }`
RECURSIVE AddRecords(_, _, _)
AddRecords(contigs, records, i) ==
    IF i > Len(records) THEN [ok |-> TRUE, contigs |-> contigs]
    ELSE LET added == add_record(contigs, records[i]) IN
         IF ~added.ok THEN added ELSE AddRecords(added.contigs, records, i + 1)

\* The rows held are converted (one failure fails the collect), added to the
\* builder, and the builder is built into the workspace of the batch.
BuildWorkspace(builder, pileup_records) ==
    IF \E i \in 1..Len(pileup_records) : ~try_into(pileup_records[i]).ok
    THEN [ok |-> FALSE, contigs |-> builder]
    ELSE AddRecords(builder,
                    [i \in 1..Len(pileup_records) |-> try_into(pileup_records[i]).rec], 1)

\* A batch that closes one contig late.
BatchFull_OneLate(contigs_loaded) == contigs_loaded > batch_size + 1

\* `if contigs_loaded > args.batches`
BatchFull(contigs_loaded) == contigs_loaded > batch_size

\* The locals of the loop before the first row.
LoopStart ==
    [builder |-> {}, current_contig |-> NoneV, contigs_loaded |-> 0,
     pileup_records |-> <<>>, workspaces |-> <<>>]

\* What the loop ends with: `workspaces` are the workspaces handed to the
\* aggregation, in order; `at` is the row that ended it (0: none did).
LoopResult(status, st, at) == [status |-> status, workspaces |-> st.workspaces, at |-> at]

\* `for row in rdr.deserialize::<PileupRecord>()` and the block after it, from
\* row i on. The aggregation of a workspace is taken to return Ok.
RECURSIVE InlineLoop(_, _)
InlineLoop(st, i) ==
    IF i > Len(stream)
    THEN IF st.pileup_records = <<>> THEN LoopResult("Ok", st, 0)
         ELSE LET built == BuildWorkspace(st.builder, st.pileup_records) IN
              IF ~built.ok THEN LoopResult("Err", st, 0)
              ELSE LoopResult("Ok", [st EXCEPT !.workspaces = Append(@, built.contigs)], 0)
    ELSE LET row        == stream[i]
             pileup_rec == deserialize(row)
         IN  IF ~pileup_rec.ok THEN LoopResult("Err", st, i)
             ELSE IF BelowThreshold(pileup_rec.v.n_valid_cov) THEN InlineLoop(st, i + 1)
             ELSE IF st.current_contig # row.contig
             THEN LET full    == BatchFull(st.contigs_loaded + 1)
                      built   == BuildWorkspace(st.builder, st.pileup_records)
                      started == IF full
                                 THEN [builder |-> {}, current_contig |-> row.contig,
                                       contigs_loaded |-> 1, pileup_records |-> <<>>,
                                       workspaces |-> Append(st.workspaces, built.contigs)]
                                 ELSE [st EXCEPT !.current_contig = row.contig,
                                                 !.contigs_loaded = @ + 1]
                      added   == add_contig(started.builder, ContigNew(row.contig))
                  IN  IF full /\ ~built.ok THEN LoopResult("Err", st, i)
                      ELSE IF row.contig \notin AssemblyIds THEN LoopResult("Err", started, i)
                      ELSE IF ~added.ok THEN LoopResult("Err", started, i)
                      ELSE InlineLoop([started EXCEPT !.builder = added.contigs,
                                                      !.pileup_records = Append(@, pileup_rec.v)],
                                      i + 1)
             ELSE InlineLoop([st EXCEPT !.pileup_records = Append(@, pileup_rec.v)], i + 1)

\* The rows a pileup of BatchSpec is made of: valid and zero-coverage rows of
\* X and Y, a row with n_modified > n_valid_cov, a row whose strand does not
\* parse, a row of M.
BatchRows ==
    ValidRows("X") \cup ValidRows("Y") \cup {ZeroCoverageRow("X"), ZeroCoverageRow("Y")}
    \cup { Row("X", 0, "a", "+", 1, 2), Row("X", 0, "a", "?", 1, 0), Row("M", 0, "a", "+", 1, 1) }

\* The batching loop of extract_methylation_pattern over the whole pileup,
\* with args.batches = batch_size.
InlineBatchingLoop ==
    /\ reply = NoReply
    /\ calls = <<>>
    /\ LET r == InlineLoop(LoopStart, 1) IN
       reply' = [op |-> "extract_methylation_pattern", status |-> r.status,
                 workspaces |-> r.workspaces, at |-> r.at]
    /\ UNCHANGED <<loaderVars, contigVars, motifVars, aggVars>>

\* The same pileup, batch size and threshold handed to a BatchLoader.
LoaderCall ==
    /\ reply.op = "extract_methylation_pattern"
    /\ NextCall

BatchInit ==
    /\ stream \in Strings(BatchRows, MaxLen)
    /\ pos = 0
    /\ \E size \in 1..MaxBatch, threshold \in 0..MaxThreshold :
         LET l == BatchLoaderNew(size, threshold) IN
         /\ batch_size = l.batch_size
         /\ min_valid_read_coverage = l.min_valid_read_coverage
         /\ current_contig_id = l.current_contig_id
         /\ current_contig = l.current_contig
         /\ contigs_loaded_in_batch = l.contigs_loaded_in_batch
    /\ calls = <<>>
    /\ populated = [status |-> "NotRun", contigs |-> {}]
    /\ UnitIdle

BatchNext == InlineBatchingLoop \/ LoaderCall

BatchSpec == BatchInit /\ [][BatchNext]_vars

\* --------------------------------------------------------------------- C28
\* Row i is stored, as an observation of its contig, in the k-th workspace
\* handed to the aggregation.
InlineStored(i, k) ==
    \E c \in reply.workspaces[k] :
        c.id = stream[i].contig /\ EntryOf(stream[i]) \in c.methylated_positions

\* Every workspace handed to the aggregation holds at most `batches` contigs;
\* every contig with a row at or above the threshold is in exactly one of
\* them; every such row is a record of exactly the workspace that holds its
\* contig.
BatchesCoverPileup ==
    LET ws == reply.workspaces
        passing == { i \in RowIds : Passing(stream[i]) }
    IN  /\ \A k \in 1..Len(ws) : Cardinality(ws[k]) <= batch_size
        /\ \A i \in passing :
              Cardinality({ k \in 1..Len(ws) : stream[i].contig \in IdsOf(ws[k]) }) = 1
        /\ \A i \in passing, k \in 1..Len(ws) :
              InlineStored(i, k) <=> stream[i].contig \in IdsOf(ws[k])

\* C28 as stated: for a pileup grouped by contig whose contigs are all in the
\* assembly, and batches >= 1, the workspaces of the loop cover the pileup.
C28_InlineBatches ==
    (reply.op = "extract_methylation_pattern" /\ Grouped /\ AllInAssembly) =>
        BatchesCoverPileup

\* C28, amended: the same for a pileup that is, in addition, well formed
\* (every row parses, n_modified <= n_valid_cov, positions within the contig,
\* no site twice).
C28_WellFormedInlineBatches ==
    (reply.op = "extract_methylation_pattern" /\ Grouped /\ AllInAssembly /\ WellFormed) =>
        BatchesCoverPileup

\* Three rows, two of X and then one of Y, with batches = 1: the row of Y
\* closes the batch of X and is itself stored in the second, last batch.
C28_Witness ==
    /\ reply.op = "extract_methylation_pattern"
    /\ reply.status = "Ok"
    /\ Grouped /\ AllInAssembly /\ WellFormed
    /\ batch_size = 1
    /\ Len(stream) = 3
    /\ \A i \in RowIds : Passing(stream[i])
    /\ stream[1].contig = "X" /\ stream[2].contig = "X" /\ stream[3].contig = "Y"
    /\ Len(reply.workspaces) = 2
    /\ InlineStored(1, 1) /\ InlineStored(2, 1) /\ InlineStored(3, 2)

\* --------------------------------------------------------------------- C29
\* The workspaces the loader yielded, in order.
LoaderWorkspaces ==
    LET yielded == SelectSeq(calls, LAMBDA call : call.result = "Ok") IN
    [k \in 1..Len(yielded) |-> yielded[k].workspace]

\* C29: for a pileup grouped by contig whose contigs are all in the assembly,
\* once the loader has returned None the workspaces it yielded are, batch for
\* batch, the workspaces the loop of extract_methylation_pattern built.
C29_LoaderMatchesInlineLoop ==
    (reply.op = "extract_methylation_pattern" /\ LastIsNone /\ Grouped /\ AllInAssembly) =>
        LoaderWorkspaces = reply.workspaces

====
